---- MODULE Spec2Model ----
(***************************************************************************)
(* A model of the fuzzy_matcher package: the normalization pipeline        *)
(* (infrastructure/preprocessors.py), the similarity algorithm used for    *)
(* ranking (infrastructure/algorithms.py) and the candidate resolver       *)
(* (application/services.py).                                              *)
(*                                                                         *)
(* Python strings are TLA+ strings; a character is a string of length 1.   *)
(* Python floats in [0,1] are exact fractions [n |-> num, d |-> den].      *)
(***************************************************************************)
EXTENDS Integers, Sequences, FiniteSets, TLC

VARIABLES
    pc,          \* "idle" before the call, "done" after it
    op,          \* the operation called
    raised,      \* TRUE iff the call ended in an exception
    input,       \* preprocess: the argument (a Python value)
    ret,         \* preprocess: the returned string
    stages,      \* preprocess: the pipeline stages that ran, in order
    threshold,   \* EntityResolverService.threshold
    limit,       \* EntityResolverService.limit
    query,       \* resolve: query_name.raw_value
    candidates,  \* resolve: the raw values of candidate_names, in order
    result,      \* resolve: the returned list of MatchCandidate
    algoCalls,   \* resolve: number of primary_algorithm.calculate_similarity calls
    scorer,      \* ComprehensiveMatchScorer: its algorithms and encoders
    strategy,    \* ConfigurableMatchDecisionStrategy: thresholds and phonetic flag
    pair,        \* calculate_scores, evaluate_match: <<s1_raw, s2_raw>>
    match,       \* calculate_scores, evaluate_match: the returned object
    simCall,     \* calculate_similarity: the algorithm, s1, s2 and the library's value
    simResult,   \* calculate_similarity: the returned score
    facadeCall,  \* find_best_matches_in_list: its arguments and the library's values
    facadeResult, \* find_best_matches_in_list: the returned list and the lines printed
    shared,      \* concurrent calls: the attributes of the shared service instances
    frames,      \* concurrent calls: per thread, its call, position, locals and result
    repo,        \* InMemoryEntityRepository: its dictionaries
    history,     \* per entity id, the profile most recently passed to save
    found        \* the latest lookup on the repository: its arguments and result

normVars == <<input, ret, stages>>
resolveVars == <<threshold, limit, query, candidates, result, algoCalls>>
scoreVars == <<scorer, strategy, pair, match>>
simVars == <<simCall, simResult>>
facadeVars == <<facadeCall, facadeResult>>
coreVars == <<shared, frames>>
repoVars == <<repo, history, found>>
vars == <<pc, op, raised, normVars, resolveVars, scoreVars, simVars, facadeVars, coreVars,
          repoVars>>

(***************************************************************************)
(* Bounds of the model.                                                    *)
(***************************************************************************)
MaxPieces == 3      \* an input string is a concatenation of at most MaxPieces pieces
MaxCandidates == 3  \* length of the candidate list given to resolve
MaxLimit == 2       \* the resolver's limit ranges over 0..MaxLimit
MaxNamePieces == 2  \* suffixed names are built from at most MaxNamePieces pieces

(***************************************************************************)
(* Characters and Python str primitives.                                   *)
(***************************************************************************)
CharAt(s, i) == SubSeq(s, i, i)

LowerLetters == "abcdefghijklmnopqrstuvwxyz"
UpperLetters == "ABCDEFGHIJKLMNOPQRSTUVWXYZ"
Digits == "0123456789"

CharSet(s) == {CharAt(s, i) : i \in 1..Len(s)}

LowerSet == CharSet(LowerLetters)
UpperSet == CharSet(UpperLetters)
DigitSet == CharSet(Digits)

\* regex \w on the ASCII text the pipeline works on: letters, digits, underscore
WordCharSet == LowerSet \cup UpperSet \cup DigitSet \cup {"_"}
IsWordChar(c) == c \in WordCharSet

\* regex \s and the characters str.strip() removes
SpaceSet == {" ", "\t", "\n"}
IsSpaceChar(c) == c \in SpaceSet

RECURSIVE JoinRange(_, _, _)
\* the strings parts[lo..hi] concatenated (by halves: the evaluation stays shallow)
JoinRange(parts, lo, hi) ==
    IF lo > hi THEN ""
    ELSE IF lo = hi THEN parts[lo]
    ELSE LET mid == (lo + hi) \div 2
         IN  JoinRange(parts, lo, mid) \o JoinRange(parts, mid + 1, hi)
\* "".join(parts)
Join(parts) == JoinRange(parts, 1, Len(parts))

LowerOf == [c \in UpperSet |->
              CharAt(LowerLetters, CHOOSE i \in 1..26 : CharAt(UpperLetters, i) = c)]
LowerChar(c) == IF c \in UpperSet THEN LowerOf[c] ELSE c

\* str.lower()
StrLower(s) == Join([i \in 1..Len(s) |-> LowerChar(CharAt(s, i))])

\* str.strip(): drop leading and trailing whitespace
StrStrip(s) ==
    LET keep == {i \in 1..Len(s) : ~IsSpaceChar(CharAt(s, i))}
    IN  IF keep = {} THEN ""
        ELSE LET lo == CHOOSE i \in keep : \A j \in keep : i <= j
                 hi == CHOOSE i \in keep : \A j \in keep : i >= j
             IN  SubSeq(s, lo, hi)

\* s.replace(c, "") for every character c in drop
StrRemove(s, drop) ==
    Join([i \in 1..Len(s) |-> IF CharAt(s, i) \in drop THEN "" ELSE CharAt(s, i)])

RECURSIVE DigitsOf(_)
DigitsOf(n) ==
    IF n < 10 THEN CharAt(Digits, n + 1)
    ELSE DigitsOf(n \div 10) \o CharAt(Digits, (n % 10) + 1)
\* str(n) for an int n
IntToStr(n) == IF n < 0 THEN "-" \o DigitsOf(0 - n) ELSE DigitsOf(n)

(***************************************************************************)
(* Python values given to preprocess: None, a str or an int.               *)
(***************************************************************************)
PyNone == [t |-> "none", s |-> "", n |-> 0]
PyStr(s) == [t |-> "str", s |-> s, n |-> 0]
PyInt(n) == [t |-> "int", s |-> "", n |-> n]

(***************************************************************************)
(* re.sub(r"\b<alt>\b", repl, text, flags=re.IGNORECASE) for a pattern     *)
(* [alts |-> <<alternatives, in the order the regex engine tries them>>,   *)
(*  repl |-> replacement].                                                 *)
(***************************************************************************)
\* \b at the position before s[i] (i in 1..Len(s)+1)
BoundaryAt(s, i) ==
    (i > 1 /\ IsWordChar(CharAt(s, i - 1))) # (i <= Len(s) /\ IsWordChar(CharAt(s, i)))

\* the least element of a set of positive numbers, 0 for the empty set
MinOrZero(S) == IF S = {} THEN 0 ELSE CHOOSE x \in S : \A y \in S : x <= y

\* the alternative a matches at s[i], ignoring case, between two boundaries
AltMatchesAt(s, i, a) ==
    /\ i + Len(a) - 1 <= Len(s)
    /\ LowerChar(CharAt(s, i)) = CharAt(a, 1)
    /\ StrLower(SubSeq(s, i, i + Len(a) - 1)) = a
    /\ BoundaryAt(s, i + Len(a))

\* the length of alternative k of the pattern, 0 for k = 0
AltLen(p, k) == IF k = 0 THEN 0 ELSE Len(p.alts[k])

\* length of the match that starts at s[i], 0 when there is none: the first
\* alternative that matches is taken
MatchLenAt(s, i, p) ==
    IF ~BoundaryAt(s, i) THEN 0
    ELSE AltLen(p, MinOrZero({k \in 1..Len(p.alts) : AltMatchesAt(s, i, p.alts[k])}))

\* the first position >= i where the pattern matches, 0 when there is none
NextMatch(s, i, p) == MinOrZero({j \in i..Len(s) : MatchLenAt(s, j, p) > 0})

RECURSIVE ReSubFrom(_, _, _)
\* the scan of re.sub from s[i] with the next match at s[j] (0: none): text up
\* to the match is copied, the match is replaced, and the scan goes on behind it
ReSubAt(s, i, j, p) ==
    IF j = 0 THEN SubSeq(s, i, Len(s))
    ELSE SubSeq(s, i, j - 1) \o p.repl \o ReSubFrom(s, j + MatchLenAt(s, j, p), p)
ReSubFrom(s, i, p) == ReSubAt(s, i, NextMatch(s, i, p), p)
ReSub(p, s) == ReSubFrom(s, 1, p)

Pat(lit, repl) == [alts |-> <<lit>>, repl |-> repl]

(***************************************************************************)
(* The preprocessing steps (a chain of responsibility).                    *)
(***************************************************************************)
\* unidecode(text): the accented characters of the model's alphabet
AccentMap == [c \in {"é", "É"} |-> IF c = "é" THEN "e" ELSE "E"]
AccentRemovalStep(text) ==
    Join([i \in 1..Len(text) |->
            IF CharAt(text, i) \in DOMAIN AccentMap THEN AccentMap[CharAt(text, i)]
            ELSE CharAt(text, i)])

LowercaseStep(text) == StrLower(text)

\* CompanySuffixStandardizationStep.suffix_mapping, in dict (insertion) order
suffix_mapping == <<
    Pat("corporation", "corp"),
    Pat("corp", "corp"),
    Pat("corp.", "corp"),
    Pat("incorporated", "inc"),
    Pat("inc", "inc"),
    Pat("inc.", "inc"),
    Pat("limited", "ltd"),
    Pat("ltd", "ltd"),
    Pat("ltd.", "ltd"),
    Pat("company", "co"),
    Pat("co", "co"),
    Pat("co.", "co"),
    Pat("public limited company", "plc"),
    Pat("p.l.c.", "plc"),
    Pat("plc", "plc"),
    Pat("limited liability company", "llc"),
    Pat("l.l.c.", "llc"),
    Pat("llc", "llc"),
    Pat("societe anonyme", "sa"),
    Pat("s.a.", "sa"),
    Pat("sa", "sa"),
    Pat("société anonyme", "sa"),
    Pat("aktiengesellschaft", "ag"),
    Pat("a.g.", "ag"),
    Pat("ag", "ag"),
    Pat("gmbh", "gmbh"),
    Pat("gmbh & co. kg", "gmbh"),
    [alts |-> <<"holdings", "holding">>, repl |-> "hldg"],
    Pat("hldg", "hldg"),
    Pat("hldg.", "hldg"),
    Pat("group", "grp"),
    Pat("grp", "grp"),
    Pat("grp.", "grp") >>

RECURSIVE ApplyPatterns(_, _, _, _)
\* the substitutions pats[lo..hi] applied to text one after the other, in order
\* (by halves: the evaluation stays shallow; re.sub leaves "" as it is)
ApplyPatterns(pats, lo, hi, text) ==
    IF lo > hi \/ text = "" THEN text
    ELSE IF lo = hi THEN ReSub(pats[lo], text)
    ELSE LET mid == (lo + hi) \div 2
             first == ApplyPatterns(pats, lo, mid, text)
         IN  IF first = "" THEN "" ELSE ApplyPatterns(pats, mid + 1, hi, first)
\* the step left out of the chain
CompanySuffixStandardizationStep_Skipped(text) == text

\* for pattern, replacement in suffix_mapping.items(): text = re.sub(...)
CompanySuffixStandardizationStep(text) ==
    ApplyPatterns(suffix_mapping, 1, Len(suffix_mapping), text)

\* text.replace(".", "").replace(",", "") then re.sub(r"[^\w\s]", "", ...)
PunctuationRemovalStep(text) ==
    LET t == StrRemove(text, {".", ","})
    IN  Join([i \in 1..Len(t) |->
                IF IsWordChar(CharAt(t, i)) \/ IsSpaceChar(CharAt(t, i))
                THEN CharAt(t, i) ELSE ""])

\* re.sub(r"\s+", " ", text).strip()
WhitespaceNormalizationStep(text) ==
    StrStrip(Join([i \in 1..Len(text) |->
                     IF ~IsSpaceChar(CharAt(text, i)) THEN CharAt(text, i)
                     ELSE IF i > 1 /\ IsSpaceChar(CharAt(text, i - 1)) THEN ""
                     ELSE " "]))

\* StandardStringPreprocessor.__init__: the chain, in execution order
ChainOrder == <<"accent", "lowercase", "suffix", "punctuation", "whitespace">>

RunStep(name, text) ==
    CASE name = "accent"      -> AccentRemovalStep(text)
      [] name = "lowercase"   -> LowercaseStep(text)
      [] name = "suffix"      -> CompanySuffixStandardizationStep(text)
      [] name = "punctuation" -> PunctuationRemovalStep(text)
      [] name = "whitespace"  -> WhitespaceNormalizationStep(text)

RECURSIVE ProcessChain(_, _, _)
\* PreprocessingStep.process: run this step, then the rest of the chain
ProcessChain(chain, k, text) ==
    IF k > Len(chain) THEN text
    ELSE ProcessChain(chain, k + 1, RunStep(chain[k], text))

\* preprocess without the None check and the str() conversion
preprocess_call_Unguarded(text) ==
    IF text.t # "str"
    THEN [ret |-> "", stages |-> <<>>, raised |-> TRUE]
    ELSE IF StrStrip(text.s) = ""
    THEN [ret |-> "", stages |-> <<>>, raised |-> FALSE]
    ELSE [ret |-> ProcessChain(ChainOrder, 1, text.s),
          stages |-> ChainOrder, raised |-> FALSE]

\* StandardStringPreprocessor.preprocess as a call: the value returned, the
\* stages that ran and whether an exception was raised (str.strip() exists
\* only on a str)
preprocess_call(text) ==
    IF text.t = "none" THEN [ret |-> "", stages |-> <<>>, raised |-> FALSE]
    ELSE LET str_text == IF text.t # "str" THEN PyStr(IntToStr(text.n)) ELSE text
         IN  IF str_text.t # "str"
             THEN [ret |-> "", stages |-> <<>>, raised |-> TRUE]
             ELSE IF StrStrip(str_text.s) = ""
             THEN [ret |-> "", stages |-> <<>>, raised |-> FALSE]
             ELSE [ret |-> ProcessChain(ChainOrder, 1, str_text.s),
                   stages |-> ChainOrder, raised |-> FALSE]

preprocess(s) == preprocess_call(PyStr(s)).ret

(***************************************************************************)
(* Inputs of the normalization specification.                              *)
(***************************************************************************)
Pieces == {"Ab", "Gro", "up", "Co", ".", "-", " ", "é", "_"}

RECURSIVE Concats(_)
Concats(k) ==
    IF k = 0 THEN {""}
    ELSE LET shorter == Concats(k - 1)
         IN  shorter \cup {p \o s : p \in Pieces, s \in shorter}

InputStrings == Concats(MaxPieces)
InputValues == {PyNone} \cup {PyInt(n) : n \in {0, 7, 123, 0 - 45}}
                       \cup {PyStr(s) : s \in InputStrings}


\* names that a legal-form suffix is appended to
NamePieces == {"Ab", "Co", ".", "-", " ", "é"}
RECURSIVE NameConcats(_)
NameConcats(k) ==
    IF k = 0 THEN {""}
    ELSE LET shorter == NameConcats(k - 1)
         IN  shorter \cup {p \o n : p \in NamePieces, n \in shorter}
BaseNames == NameConcats(MaxNamePieces)

\* the spellings of each single-word suffix family and its short token
SuffixFamilies ==
    { [short |-> "corp", variants |-> {"Corporation", "Corp.", "Corp"}],
      [short |-> "inc",  variants |-> {"Incorporated", "Inc.", "Inc"}],
      [short |-> "ltd",  variants |-> {"Limited", "Ltd.", "Ltd"}],
      [short |-> "co",   variants |-> {"Company", "Co.", "Co"}],
      [short |-> "hldg", variants |-> {"Holding", "Holdings", "Hldg.", "Hldg"}],
      [short |-> "grp",  variants |-> {"Group", "Grp.", "Grp"}] }

\* the multi-word legal-entity phrases and their short token
PhraseFamilies ==
    { [short |-> "plc", variants |-> {"Public Limited Company", "plc"}],
      [short |-> "llc", variants |-> {"Limited Liability Company", "llc"}] }

SuffixedNames ==
    {n \o " " \o v : n \in BaseNames,
                     v \in UNION {f.variants : f \in SuffixFamilies \cup PhraseFamilies}}

(***************************************************************************)
(* Scores: a Python float in [0,1] is the exact fraction n/d.              *)
(***************************************************************************)
Frac(n, d) == [n |-> n, d |-> d]
FracGE(a, b) == a.n * b.d >= b.n * a.d
FracGT(a, b) == a.n * b.d > b.n * a.d
FracEq(a, b) == a.n * b.d = b.n * a.d
One == Frac(1, 1)
Zero == Frac(0, 1)
FracAdd(a, b) == Frac(a.n * b.d + b.n * a.d, a.d * b.d)
FracMul(a, b) == Frac(a.n * b.n, a.d * b.d)
\* the same number in lowest terms
RECURSIVE GCD(_, _)
GCD(a, b) == IF b = 0 THEN a ELSE GCD(b, a % b)
Reduced(x) == Frac(x.n \div GCD(x.n, x.d), x.d \div GCD(x.n, x.d))
FracMin(a, b) == IF FracGE(b, a) THEN a ELSE b
FracMax(a, b) == IF FracGE(a, b) THEN a ELSE b

Min2(a, b) == IF a <= b THEN a ELSE b
Max2(a, b) == IF a >= b THEN a ELSE b
MinOf(S) == CHOOSE x \in S : \A y \in S : x <= y

(***************************************************************************)
(* LevenshteinAlgorithm (the ranking algorithm the resolver is built with) *)
(***************************************************************************)
RECURSIVE LevRow(_, _, _)
\* jellyfish.levenshtein_distance, row j of the table:
\* LevRow(a, b, j)[i + 1] is the distance between a[1..i] and b[1..j]
LevRow(a, b, j) ==
    IF j = 0 THEN [i \in 1..(Len(a) + 1) |-> i - 1]
    ELSE LET prev == LevRow(a, b, j - 1)
             \* the cell (k, j) reached from row j - 1
             down(k) == IF k = 0 THEN j
                        ELSE Min2(prev[k + 1] + 1,
                                  prev[k] + (IF CharAt(a, k) = CharAt(b, j) THEN 0 ELSE 1))
         IN  SubSeq([i \in 1..(Len(a) + 1) |->
                       MinOf({down(k) + (i - 1 - k) : k \in 0..(i - 1)})],
                    1, Len(a) + 1)
levenshtein_distance(a, b) == LevRow(a, b, Len(b))[Len(a) + 1]

\* LevenshteinAlgorithm.calculate_similarity
calculate_similarity(s1, s2) ==
    IF s1 = "" /\ s2 = "" THEN One
    ELSE IF s1 = "" \/ s2 = "" THEN Zero
    ELSE LET max_len == Max2(Len(s1), Len(s2))
         IN  IF max_len = 0 THEN One
             ELSE Frac(max_len - levenshtein_distance(s1, s2), max_len)

(***************************************************************************)
(* The other similarity algorithms of the registry.  Each wraps one        *)
(* function of thefuzz or jellyfish; the value that function returns for   *)
(* the two strings is a parameter of the operator (the last one), the      *)
(* wrapper's own code is modelled as written.                              *)
(***************************************************************************)
\* DamerauLevenshteinAlgorithm.calculate_similarity;
\* distance = damerau_levenshtein_distance(s1, s2)
DamerauLevenshtein_calculate_similarity(s1, s2, distance) ==
    IF s1 = "" /\ s2 = "" THEN One
    ELSE IF s1 = "" \/ s2 = "" THEN Zero
    ELSE IF Max2(Len(s1), Len(s2)) = 0 THEN One
    ELSE Frac(Max2(Len(s1), Len(s2)) - distance, Max2(Len(s1), Len(s2)))

\* JaroWinklerAlgorithm.calculate_similarity;
\* percent / 100 = jaro_winkler_similarity(s1, s2)
JaroWinkler_calculate_similarity(s1, s2, percent) ==
    IF s1 = "" /\ s2 = "" THEN One
    ELSE IF s1 = "" \/ s2 = "" THEN Zero
    ELSE Frac(percent, 100)

\* s[i..j] is a maximal run of non-whitespace characters
IsToken(s, i, j) ==
    /\ i <= j
    /\ \A k \in i..j : ~IsSpaceChar(CharAt(s, k))
    /\ (i = 1 \/ IsSpaceChar(CharAt(s, i - 1)))
    /\ (j = Len(s) \/ IsSpaceChar(CharAt(s, j + 1)))

\* set(s.split())
Tokens(s) ==
    {SubSeq(s, q[1], q[2]) :
        q \in {r \in (1..Len(s)) \X (1..Len(s)) : IsToken(s, r[1], r[2])}}

company_suffixes ==
    {"inc", "corp", "llc", "ltd", "co", "plc", "sa", "ag", "gmbh", "hldg", "grp"}

\* the boost on the suffix-stripped token sets: a weighted average with the
\* share of common name tokens, never below the standard score
NameBoost(standard_score, name_tokens1, name_tokens2) ==
    IF name_tokens1 # {} /\ name_tokens2 # {}
       /\ FracGT(Frac(Cardinality(name_tokens1 \cap name_tokens2),
                      Max2(Cardinality(name_tokens1), Cardinality(name_tokens2))),
                 Frac(8, 10))
    THEN FracMax(standard_score,
                 FracMin(One,
                         FracAdd(FracMul(standard_score, Frac(3, 10)),
                                 FracMul(Frac(Cardinality(name_tokens1 \cap name_tokens2),
                                              Max2(Cardinality(name_tokens1),
                                                   Cardinality(name_tokens2))),
                                         Frac(7, 10)))))
    ELSE standard_score

\* a variant of the suffix-aware part that boosts a base score of 0.95 or more too
SuffixAware_AlwaysBoost(standard_score, tokens1, tokens2) ==
    IF \E suffix \in company_suffixes : suffix \in tokens1 \/ suffix \in tokens2
    THEN NameBoost(standard_score, tokens1 \ company_suffixes, tokens2 \ company_suffixes)
    ELSE standard_score

\* the suffix-aware part of token_set_ratio, on the two token sets
SuffixAware(standard_score, tokens1, tokens2) ==
    IF FracGE(standard_score, Frac(95, 100)) THEN standard_score
    ELSE IF \E suffix \in company_suffixes : suffix \in tokens1 \/ suffix \in tokens2
    THEN NameBoost(standard_score, tokens1 \ company_suffixes, tokens2 \ company_suffixes)
    ELSE standard_score

\* a variant of token_set_ratio without the immediate return for equal strings
TokenSetRatio_NoExactReturn(s1, s2, ratio) ==
    IF s1 = "" /\ s2 = "" THEN One
    ELSE IF s1 = "" \/ s2 = "" THEN Zero
    ELSE SuffixAware(Frac(ratio, 100), Tokens(StrLower(s1)), Tokens(StrLower(s2)))

\* TokenSetRatioAlgorithm.calculate_similarity;
\* ratio = fuzz.token_set_ratio(s1, s2)
TokenSetRatio_calculate_similarity(s1, s2, ratio) ==
    IF s1 = "" /\ s2 = "" THEN One
    ELSE IF s1 = "" \/ s2 = "" THEN Zero
    ELSE IF StrLower(s1) = StrLower(s2) THEN One
    ELSE SuffixAware(Frac(ratio, 100), Tokens(StrLower(s1)), Tokens(StrLower(s2)))

\* TokenSortRatioAlgorithm.calculate_similarity;
\* ratio = fuzz.token_sort_ratio(s1, s2)
TokenSortRatio_calculate_similarity(s1, s2, ratio) ==
    IF s1 = "" /\ s2 = "" THEN One
    ELSE IF s1 = "" \/ s2 = "" THEN Zero
    ELSE Frac(ratio, 100)

\* PartialRatioAlgorithm.calculate_similarity;
\* ratio = fuzz.partial_ratio(s1, s2)
PartialRatio_calculate_similarity(s1, s2, ratio) ==
    IF s1 = "" /\ s2 = "" THEN One
    ELSE IF s1 = "" \/ s2 = "" THEN Zero
    ELSE Frac(ratio, 100)

QuickBrownFox == "The quick brown fox jumps over the lazy dog"
BrownFox == "The brown fox"

\* variants of weighted_ratio: without the empty-string checks, and with the
\* special case in one direction only
WeightedRatio_NoEmptyCheck(s1, s2, ratio) ==
    IF \/ (s1 = QuickBrownFox /\ s2 = BrownFox)
       \/ (s2 = QuickBrownFox /\ s1 = BrownFox)
    THEN Frac(85, 100)
    ELSE Frac(ratio, 100)

WeightedRatio_OneDirection(s1, s2, ratio) ==
    IF s1 = "" /\ s2 = "" THEN One
    ELSE IF s1 = "" \/ s2 = "" THEN Zero
    ELSE IF s1 = QuickBrownFox /\ s2 = BrownFox
    THEN Frac(85, 100)
    ELSE Frac(ratio, 100)

\* WeightedRatioAlgorithm.calculate_similarity; ratio = fuzz.WRatio(s1, s2)
WeightedRatio_calculate_similarity(s1, s2, ratio) ==
    IF s1 = "" /\ s2 = "" THEN One
    ELSE IF s1 = "" \/ s2 = "" THEN Zero
    ELSE IF \/ (s1 = QuickBrownFox /\ s2 = BrownFox)
            \/ (s2 = QuickBrownFox /\ s1 = BrownFox)
    THEN Frac(85, 100)
    ELSE Frac(ratio, 100)

\* get_default_similarity_algorithms: the registry, keyed by algorithm name
DefaultAlgorithmNames ==
    {"levenshtein", "damerau_levenshtein", "jaro_winkler", "token_set_ratio",
     "token_sort_ratio", "partial_ratio", "weighted_ratio"}

\* algorithms[name].calculate_similarity(s1, s2), lib being the value the
\* wrapped library function returns for the two strings
AlgorithmResult(name, s1, s2, lib) ==
    CASE name = "levenshtein" -> calculate_similarity(s1, s2)
      [] name = "damerau_levenshtein" -> DamerauLevenshtein_calculate_similarity(s1, s2, lib)
      [] name = "jaro_winkler" -> JaroWinkler_calculate_similarity(s1, s2, lib)
      [] name = "token_set_ratio" -> TokenSetRatio_calculate_similarity(s1, s2, lib)
      [] name = "token_sort_ratio" -> TokenSortRatio_calculate_similarity(s1, s2, lib)
      [] name = "partial_ratio" -> PartialRatio_calculate_similarity(s1, s2, lib)
      [] name = "weighted_ratio" -> WeightedRatio_calculate_similarity(s1, s2, lib)

\* the strings the algorithms are called with directly
ShortStrings == {"", " ", "ab", "AB", "cd", "ab inc", "ab corp", "ab cd inc", "inc"}
AlgoStrings == ShortStrings \cup {QuickBrownFox, BrownFox}
\* levenshtein, whose distance the model computes, gets the short strings
StringsFor(name) == IF name = "levenshtein" THEN ShortStrings ELSE AlgoStrings

\* the values the library functions return: a percentage for thefuzz and
\* jaro_winkler_similarity, a distance for damerau_levenshtein_distance
LibPercents == {0, 50, 85, 94, 95, 100}
\* the length of the longest string of AlgoStrings
MaxAlgoLen == Len(QuickBrownFox)
LibValues(name, s1, s2) ==
    CASE name = "levenshtein" -> {0}
      [] name = "damerau_levenshtein" -> {0, 1, Max2(Len(s1), Len(s2))}
      [] OTHER -> LibPercents

(***************************************************************************)
(* EntityResolverService                                                   *)
(***************************************************************************)
\* raw entity names the resolver is exercised with
ResolverNames == {"IBM", "IBM Corporation", "ibm", "ibn", "ibx", "."}
QueryNames == {"IBM", "ibm", "ibn", "."}
\* the strings find_best_matches_in_list is exercised with
FacadeQueries == {"Apple", "Aple", "Ab", "."}
FacadeCandidates == {"Apple Inc.", "Ab", "ab", "Ac", "."}
\* the names entities are registered and looked up with
RepoNames == {"Apple Inc.", "Apple Computer", "Ab", "ab", "Cd", "."}
\* thresholds the service is constructed with (0.8 is the default)
Thresholds == {Frac(0, 1), Frac(2, 3), Frac(4, 5), Frac(1, 1)}

\* self.preprocessor.preprocess(name.raw_value), computed once per name
Normalized ==
    [s \in ResolverNames \cup FacadeQueries \cup FacadeCandidates \cup RepoNames |->
        preprocess(s)]

\* MatchCandidate(entity_name, processed_entity_name, score)
MatchCandidate(name, processed, score) ==
    [entity_name |-> name, processed |-> processed, score |-> score]

\* MatchCandidate.__lt__: a sorts before b when a's score is higher
MatchCandidate_lt(a, b) == FracGT(a.score, b.score)

\* sorted(seq): Python's sort is stable, so an element is preceded by the
\* elements that are less than it and by the earlier elements it ties with
sorted(seq) ==
    LET n == Len(seq)
        before(i) == {j \in 1..n : \/ MatchCandidate_lt(seq[j], seq[i])
                                   \/ (j < i /\ ~MatchCandidate_lt(seq[i], seq[j]))}
    IN  [k \in 1..n |-> seq[CHOOSE i \in 1..n : Cardinality(before(i)) = k - 1]]

\* the elements of seq at the positions in keep, in order (a filtering loop
\* or comprehension)
Pick(seq, keep) ==
    [k \in 1..Cardinality(keep) |->
        seq[CHOOSE i \in keep : Cardinality({j \in keep : j < i}) = k - 1]]

\* a MatchCandidate with a perfect score for each name of a list
PerfectMatches(names) ==
    [i \in 1..Len(names) |-> MatchCandidate(names[i], Normalized[names[i]], One)]

\* the abbreviation special case: candidates collected when the query is "IBM"
ibm_matches(candidate_names) ==
    PerfectMatches(Pick(candidate_names,
                        {i \in 1..Len(candidate_names) :
                            \/ candidate_names[i] = "IBM"
                            \/ candidate_names[i] = "IBM Corporation"}))

\* candidates that are non-empty after processing
processed_candidates_map(candidate_names) ==
    Pick(candidate_names,
         {i \in 1..Len(candidate_names) : Normalized[candidate_names[i]] # ""})

\* the exact-match test of the candidate loop, with its abbreviation branch
IsExactMatch(query_name, c) ==
    \/ query_name = c
    \/ Normalized[query_name] = Normalized[c]
    \/ (query_name \in {"IBM"} /\ c \in {"IBM", "IBM Corporation"})

exact_matches(query_name, candidate_names) ==
    LET pcm == processed_candidates_map(candidate_names)
    IN  PerfectMatches(Pick(pcm, {i \in 1..Len(pcm) : IsExactMatch(query_name, pcm[i])}))

\* lookup_map: a dict keyed by processed value, a later candidate with the
\* same processed value replaces the earlier one
lookup_map(pcm) ==
    [k \in {Normalized[pcm[i]] : i \in 1..Len(pcm)} |->
        pcm[CHOOSE i \in 1..Len(pcm) :
               /\ Normalized[pcm[i]] = k
               /\ \A j \in (i + 1)..Len(pcm) : Normalized[pcm[j]] # k]]

\* list(lookup_map.keys()): the keys in order of first insertion
unique_choices_for_fuzz(pcm) ==
    Pick([i \in 1..Len(pcm) |-> Normalized[pcm[i]]],
         {i \in 1..Len(pcm) : \A j \in 1..(i - 1) : Normalized[pcm[j]] # Normalized[pcm[i]]})

\* self.primary_algorithm: the name of a registry algorithm and, for the
\* processed query of the call, the value the library function it wraps
\* returns against each choice
PrimaryAlgorithm(name, libs) == [name |-> name, libs |-> libs]
LevenshteinPrimary == PrimaryAlgorithm("levenshtein", <<>>)
LibOf(algo, c_str) == IF c_str \in DOMAIN algo.libs THEN algo.libs[c_str] ELSE 0

\* x * 100.0
Times100(x) == Reduced(Frac(x.n * 100, x.d))

\* fuzz_scorer: the primary algorithm's similarity on the 0-100 scale
fuzz_scorer(algo, q_str, c_str) ==
    Times100(AlgorithmResult(algo.name, q_str, c_str, LibOf(algo, c_str)))

\* thefuzz process.extract(query, choices, scorer, limit): score every
\* choice, order by score descending keeping choice order on ties, and keep
\* the first `limit`
process_extract(algo, q_str, choices, lim) ==
    LET scored == [i \in 1..Len(choices) |->
                      MatchCandidate(choices[i], choices[i],
                                     fuzz_scorer(algo, q_str, choices[i]))]
        ranked == sorted(scored)
    IN  SubSeq(ranked, 1, Min2(lim, Len(ranked)))

\* every extracted match is kept
PassesThreshold_KeepAll(score_0_1, thr) == TRUE

\* the threshold test applied to each extracted match
PassesThreshold(score_0_1, thr) == FracGE(score_0_1, thr)

\* the ranking path: extract, rescale, filter by threshold, sort
ranked_results(algo, query_name, pcm, thr, lim) ==
    LET lookup == lookup_map(pcm)
        best == process_extract(algo, Normalized[query_name],
                                unique_choices_for_fuzz(pcm), lim)
        rescaled == [i \in 1..Len(best) |->
                        MatchCandidate(lookup[best[i].entity_name], best[i].entity_name,
                                       Reduced(Frac(best[i].score.n,
                                                    best[i].score.d * 100)))]
    IN  sorted(Pick(rescaled,
                    {i \in 1..Len(rescaled) : PassesThreshold(rescaled[i].score, thr)}))

\* resolve without the check of the processed query
resolve_NoQueryCheck(algo, query_name, candidate_names, thr, lim) ==
    IF exact_matches(query_name, candidate_names) # <<>>
    THEN [result |-> sorted(exact_matches(query_name, candidate_names)), calls |-> 0]
    ELSE IF processed_candidates_map(candidate_names) = <<>>
         THEN [result |-> <<>>, calls |-> 0]
    ELSE LET pcm == processed_candidates_map(candidate_names)
         IN  [result |-> ranked_results(algo, query_name, pcm, thr, lim),
              calls |-> Len(unique_choices_for_fuzz(pcm))]

\* EntityResolverService.resolve on a service built with primary algorithm
\* algo, threshold thr and limit lim: the returned list and the number of
\* calculate_similarity calls made
resolve(algo, query_name, candidate_names, thr, lim) ==
    IF Normalized[query_name] = "" THEN [result |-> <<>>, calls |-> 0]
    ELSE IF query_name = "IBM" /\ ibm_matches(candidate_names) # <<>>
         THEN [result |-> sorted(ibm_matches(candidate_names)), calls |-> 0]
    ELSE IF exact_matches(query_name, candidate_names) # <<>>
         THEN [result |-> sorted(exact_matches(query_name, candidate_names)), calls |-> 0]
    ELSE IF processed_candidates_map(candidate_names) = <<>>
         THEN [result |-> <<>>, calls |-> 0]
    ELSE LET pcm == processed_candidates_map(candidate_names)
         IN  [result |-> ranked_results(algo, query_name, pcm, thr, lim),
              calls |-> Len(unique_choices_for_fuzz(pcm))]

RECURSIVE SeqsUpTo(_, _)
\* all sequences over S of length at most k
SeqsUpTo(S, k) ==
    IF k = 0 THEN {<<>>}
    ELSE LET shorter == SeqsUpTo(S, k - 1)
         IN  shorter \cup {Append(q, x) : q \in shorter, x \in S}

CandidateLists == SeqsUpTo(ResolverNames, MaxCandidates)


(***************************************************************************)
(* ComprehensiveMatchScorer and DomainMatchScore.                          *)
(*                                                                         *)
(* The scorer is built with a dict of similarity algorithms and a dict of  *)
(* phonetic encoders.  In the model scorer.similarity_algorithms maps each *)
(* configured name to the value that algorithm's calculate_similarity      *)
(* returns for the pair being scored, and scorer.phonetic_encoders maps    *)
(* each configured name to its encode function (processed string to code). *)
(***************************************************************************)
\* an entry of the scores dict: a float or a str
ScoreFloat(x) == [t |-> "float", f |-> x, s |-> ""]
ScoreStr(c) == [t |-> "str", f |-> Zero, s |-> c]

\* the raw values given to calculate_scores and evaluate_match
ScoreInputs ==
    {PyNone, PyInt(7), PyStr(" "), PyStr("Ab Co."), PyStr("ab co"), PyStr("Ab Company"),
     PyStr("Abc")}

\* self.preprocessor.preprocess(raw), computed once per raw value
Processed == [v \in ScoreInputs |-> preprocess_call(v)]

StartsWith(s, prefix) == Len(s) >= Len(prefix) /\ SubSeq(s, 1, Len(prefix)) = prefix
Contains(s, sub) ==
    \E i \in 1..(Len(s) - Len(sub) + 1) : SubSeq(s, i, i + Len(sub) - 1) = sub

\* the encoder calls of calculate_scores: <<e, p>> when encoder e encodes p
encoder_calls(encs, p1, p2) ==
    {<<e, p>> : e \in DOMAIN encs, p \in {p1.ret, p2.ret} \ {""}}

\* a variant of calculate_scores that invokes every algorithm whatever the
\* processed strings are (an algorithm of the model returns its value)
build_scores_NoEmptyRule(sc, p1, p2) ==
    LET algos == sc.similarity_algorithms
        encs == sc.phonetic_encoders
        s1Keys == {e \o "_s1" : e \in DOMAIN encs}
        s2Keys == {e \o "_s2" : e \in DOMAIN encs}
        encoderOf(k) == CHOOSE e \in DOMAIN encs : k \in {e \o "_s1", e \o "_s2"}
        code(e, p) == IF p # "" THEN encs[e][p] ELSE ""
    IN  [raised |-> FALSE, processed_s1 |-> p1.ret, processed_s2 |-> p2.ret,
         scores |->
             [k \in DOMAIN algos \cup s1Keys \cup s2Keys |->
                 IF k \in s1Keys THEN ScoreStr(code(encoderOf(k), p1.ret))
                 ELSE IF k \in s2Keys THEN ScoreStr(code(encoderOf(k), p2.ret))
                 ELSE ScoreFloat(algos[k])],
         invoked |-> DOMAIN algos,
         encoded |-> encoder_calls(encs, p1, p2)]

\* the body of calculate_scores on the two preprocessing outcomes p1 and p2:
\* the similarity loop and the encoder loop (whose keys overwrite equal
\* algorithm keys), the algorithms whose calculate_similarity was invoked and
\* the encoder calls made
build_scores(sc, p1, p2) ==
    LET algos == sc.similarity_algorithms
        encs == sc.phonetic_encoders
        s1Keys == {e \o "_s1" : e \in DOMAIN encs}
        s2Keys == {e \o "_s2" : e \in DOMAIN encs}
        encoderOf(k) == CHOOSE e \in DOMAIN encs : k \in {e \o "_s1", e \o "_s2"}
        similarity(a) ==
            IF p1.ret = "" \/ p2.ret = ""
            THEN IF p1.ret = "" /\ p2.ret = "" THEN One ELSE Zero
            ELSE algos[a]
        code(e, p) == IF p # "" THEN encs[e][p] ELSE ""
    IN  IF p1.raised \/ p2.raised
        THEN [raised |-> TRUE, processed_s1 |-> "", processed_s2 |-> "",
              scores |-> <<>>, invoked |-> {}, encoded |-> {}]
        ELSE [raised |-> FALSE, processed_s1 |-> p1.ret, processed_s2 |-> p2.ret,
              scores |->
                  [k \in DOMAIN algos \cup s1Keys \cup s2Keys |->
                      IF k \in s1Keys THEN ScoreStr(code(encoderOf(k), p1.ret))
                      ELSE IF k \in s2Keys THEN ScoreStr(code(encoderOf(k), p2.ret))
                      ELSE ScoreFloat(similarity(k))],
              invoked |-> IF p1.ret = "" \/ p2.ret = "" THEN {} ELSE DOMAIN algos,
              encoded |-> encoder_calls(encs, p1, p2)]

\* ComprehensiveMatchScorer.calculate_scores(s1_raw, s2_raw)
calculate_scores(sc, s1_raw, s2_raw) ==
    build_scores(sc, Processed[s1_raw], Processed[s2_raw])

\* a variant of the default that is numeric for every key
get_score_default_AlwaysFloat(algorithm_name) == ScoreFloat(Zero)

\* the default of a lookup of an absent key
get_score_default(algorithm_name) ==
    IF StartsWith(algorithm_name, "soundex_") \/ StartsWith(algorithm_name, "metaphone_")
    THEN ScoreStr("")
    ELSE ScoreFloat(Zero)

\* DomainMatchScore.get_score(algorithm_name)
get_score(scores, algorithm_name) ==
    IF algorithm_name \in DOMAIN scores
    THEN scores[algorithm_name]
    ELSE get_score_default(algorithm_name)

(***************************************************************************)
(* ConfigurableMatchDecisionStrategy                                       *)
(***************************************************************************)
\* f"{x:.2f}" for a score x in [0,1] that is a multiple of 0.01
Format2f(x) ==
    LET cents == (x.n * 100) \div x.d
    IN  IntToStr(cents \div 100) \o "." \o IntToStr((cents \div 10) % 10)
                                 \o IntToStr(cents % 10)

\* a variant of the comparison that holds when the threshold is >= the value
ScoreGE_Reversed(v, thr) ==
    [raised |-> v.t # "float", holds |-> v.t = "float" /\ FracGE(thr, v.f)]

\* value >= threshold on a score entry: comparing a str with a float raises
ScoreGE(v, thr) ==
    [raised |-> v.t # "float", holds |-> v.t = "float" /\ FracGE(v.f, thr)]

\* self.rules: the reason template of each rule, in rule order
rule_templates(st) ==
    << "Combined high token_set_ratio and jaro_winkler similarity",
       "High weighted_ratio similarity",
       "Very high token_set_ratio similarity",
       "Very high jaro_winkler similarity" >>
    \o (IF st.phonetic_match_contributes THEN <<"Phonetic match (Soundex)">> ELSE <<>>)

\* the condition of rule k on a score bundle: `a and b` evaluates b only
\* when a holds
rule_condition(st, k, scores) ==
    LET ts == get_score(scores, "token_set_ratio")
        jw == get_score(scores, "jaro_winkler")
        wr == get_score(scores, "weighted_ratio")
        both(a, b) == IF a.raised \/ ~a.holds THEN a ELSE b
    IN  CASE k = 1 -> both(ScoreGE(ts, st.token_set_threshold),
                           ScoreGE(jw, st.jaro_winkler_threshold))
          [] k = 2 -> ScoreGE(wr, st.weighted_ratio_threshold)
          [] k = 3 -> ScoreGE(ts, st.high_token_set_threshold)
          [] k = 4 -> ScoreGE(jw, st.high_jaro_winkler_threshold)
          [] k = 5 -> [raised |-> FALSE,
                       holds |-> /\ get_score(scores, "soundex_s1") = get_score(scores, "soundex_s2")
                                 /\ get_score(scores, "soundex_s1") # ScoreStr("")]

\* the reason appended when a rule fires: formatting a str with .2f raises
formatted_reason(reason_template, scores) ==
    LET ts == get_score(scores, "token_set_ratio")
        jw == get_score(scores, "jaro_winkler")
        wr == get_score(scores, "weighted_ratio")
        fmt(v) == IF v.t = "float" THEN Format2f(v.f) ELSE ""
    IN  IF Contains(reason_template, "token_set_ratio") /\ Contains(reason_template, "jaro_winkler")
        THEN [raised |-> ts.t # "float" \/ jw.t # "float",
              text |-> reason_template \o " (TS: " \o fmt(ts) \o ", JW: " \o fmt(jw) \o ")"]
        ELSE IF Contains(reason_template, "weighted_ratio")
        THEN [raised |-> wr.t # "float",
              text |-> reason_template \o " (WR: " \o fmt(wr) \o ")"]
        ELSE IF Contains(reason_template, "token_set_ratio")
        THEN [raised |-> ts.t # "float",
              text |-> reason_template \o " (TS: " \o fmt(ts) \o ")"]
        ELSE IF Contains(reason_template, "jaro_winkler")
        THEN [raised |-> jw.t # "float",
              text |-> reason_template \o " (JW: " \o fmt(jw) \o ")"]
        ELSE IF Contains(reason_template, "Soundex")
        THEN [raised |-> FALSE,
              text |-> reason_template \o ": " \o get_score(scores, "soundex_s1").s]
        ELSE [raised |-> FALSE, text |-> reason_template]

\* variants of the informational block: Metaphone reported before Soundex,
\* and no informational reason at all
informational_reasons_MetaphoneFirst(st, scores) ==
    LET soundex_s1 == get_score(scores, "soundex_s1")
        soundex_s2 == get_score(scores, "soundex_s2")
        metaphone_s1 == get_score(scores, "metaphone_s1")
        metaphone_s2 == get_score(scores, "metaphone_s2")
    IN  IF st.phonetic_match_contributes THEN <<>>
        ELSE (IF metaphone_s1.t = "str" /\ metaphone_s1.s # "" /\ metaphone_s1 = metaphone_s2
              THEN <<"Informational: Phonetic Metaphone match (" \o metaphone_s1.s \o ")">>
              ELSE <<>>)
          \o (IF soundex_s1.t = "str" /\ soundex_s1.s # "" /\ soundex_s1 = soundex_s2
              THEN <<"Informational: Phonetic Soundex match (" \o soundex_s1.s \o ")">>
              ELSE <<>>)

informational_reasons_None(st, scores) == <<>>

\* a variant that appends the informational reasons whatever the flag is
informational_reasons_Always(st, scores) ==
    informational_reasons_MetaphoneFirst([st EXCEPT !.phonetic_match_contributes = FALSE],
                                         scores)

\* the informational reasons appended when phonetic matches do not contribute
informational_reasons(st, scores) ==
    LET soundex_s1 == get_score(scores, "soundex_s1")
        soundex_s2 == get_score(scores, "soundex_s2")
        metaphone_s1 == get_score(scores, "metaphone_s1")
        metaphone_s2 == get_score(scores, "metaphone_s2")
    IN  IF st.phonetic_match_contributes THEN <<>>
        ELSE (IF soundex_s1.t = "str" /\ soundex_s1.s # "" /\ soundex_s1 = soundex_s2
              THEN <<"Informational: Phonetic Soundex match (" \o soundex_s1.s \o ")">>
              ELSE <<>>)
          \o (IF metaphone_s1.t = "str" /\ metaphone_s1.s # "" /\ metaphone_s1 = metaphone_s2
              THEN <<"Informational: Phonetic Metaphone match (" \o metaphone_s1.s \o ")">>
              ELSE <<>>)

\* a variant of the rule loop that stops at the first rule that fires
decide_StopAtFirst(st, score_details) ==
    LET scores == score_details.scores
        templates == rule_templates(st)
        rules == 1..Len(templates)
        fired == {k \in rules : rule_condition(st, k, scores).holds}
        first == {k \in fired : \A j \in fired : k <= j}
    IN  [raised |-> FALSE, score_details |-> score_details,
         is_match |-> fired # {},
         match_reasons |->
             Pick([k \in rules |-> formatted_reason(templates[k], scores).text], first)
             \o informational_reasons(st, scores)]

\* the body of evaluate_match on the score bundle: every rule is evaluated in
\* order, each rule that fires appends its reason
decide(st, score_details) ==
    LET scores == score_details.scores
        templates == rule_templates(st)
        rules == 1..Len(templates)
        fired == {k \in rules : rule_condition(st, k, scores).holds}
        failed == \/ \E k \in rules : rule_condition(st, k, scores).raised
                  \/ \E k \in fired : formatted_reason(templates[k], scores).raised
    IN  IF score_details.raised \/ failed
        THEN [raised |-> TRUE, score_details |-> score_details,
              is_match |-> FALSE, match_reasons |-> <<>>]
        ELSE [raised |-> FALSE, score_details |-> score_details,
              is_match |-> fired # {},
              match_reasons |->
                  Pick([k \in rules |-> formatted_reason(templates[k], scores).text], fired)
                  \o informational_reasons(st, scores)]

\* ConfigurableMatchDecisionStrategy.evaluate_match(s1_raw, s2_raw)
evaluate_match(st, sc, s1_raw, s2_raw) == decide(st, calculate_scores(sc, s1_raw, s2_raw))

(***************************************************************************)
(* EntityResolutionFacade.find_best_matches_in_list, on a facade built     *)
(* with the default registry of similarity algorithms.                     *)
(***************************************************************************)
\* one dict of the returned list
MatchEntry(query_string, candidate, score, algorithm_used) ==
    [original_query |-> query_string,
     matched_candidate_original |-> candidate,
     matched_candidate_processed |-> Normalized[candidate],
     score |-> score,
     algorithm_used |-> algorithm_used]

\* the branch of the exact-match loop a candidate takes ("none": no branch)
MatchKind(query_string, candidate, algorithm_name) ==
    IF query_string = candidate THEN "exact_match"
    ELSE IF Normalized[query_string] = Normalized[candidate] THEN "exact_processed_match"
    ELSE IF \/ /\ query_string = "Apple"
               /\ Contains(candidate, "Apple")
               /\ algorithm_name \notin {"token_set_ratio", "nonexistent_algorithm"}
            \/ /\ Contains(query_string, "Apple")
               /\ Contains(candidate, "Apple")
               /\ algorithm_name \notin {"token_set_ratio", "nonexistent_algorithm"}
            \/ /\ query_string = "Aple"
               /\ Contains(candidate, "Apple")
    THEN "special_apple_match"
    ELSE "none"

\* the entries the exact-match loop appends for one kind, in candidate order
MatchesOfKind(query_string, candidate_strings, algorithm_name, kind) ==
    Pick([i \in 1..Len(candidate_strings) |->
             MatchEntry(query_string, candidate_strings[i], One, kind)],
         {i \in 1..Len(candidate_strings) :
             MatchKind(query_string, candidate_strings[i], algorithm_name) = kind})

\* sorted(exact_matches, key=..., reverse=True): exact_match entries, then
\* exact_processed_match, then special_apple_match, each in candidate order
sorted_matches(query_string, candidate_strings, algorithm_name) ==
    MatchesOfKind(query_string, candidate_strings, algorithm_name, "exact_match")
    \o MatchesOfKind(query_string, candidate_strings, algorithm_name, "exact_processed_match")
    \o MatchesOfKind(query_string, candidate_strings, algorithm_name, "special_apple_match")

\* _get_resolver_algorithm: the name of the algorithm returned
resolver_algorithm_name(algo_name) ==
    IF algo_name = "nonexistent_algorithm" THEN "token_set_ratio"
    ELSE IF algo_name \in DefaultAlgorithmNames THEN algo_name
    ELSE "token_set_ratio"

\* _get_resolver_algorithm: the lines it prints
resolver_algorithm_warnings(algo_name) ==
    IF algo_name = "nonexistent_algorithm" THEN <<>>
    ELSE IF algo_name \in DefaultAlgorithmNames THEN <<>>
    ELSE <<"Warning: Algorithm '" \o algo_name
           \o "' not found. Defaulting to 'token_set_ratio'.">>

\* the special case for the query "Apple": every candidate containing
\* "Apple", scored 0.95 and labelled with the requested algorithm name
apple_matches(query_string, candidate_strings, algorithm_name) ==
    IF /\ query_string = "Apple"
       /\ \E i \in 1..Len(candidate_strings) : Contains(candidate_strings[i], "Apple Inc.")
    THEN Pick([i \in 1..Len(candidate_strings) |->
                  MatchEntry(query_string, candidate_strings[i], Frac(95, 100),
                             algorithm_name)],
              {i \in 1..Len(candidate_strings) : Contains(candidate_strings[i], "Apple")})
    ELSE <<>>

\* the list built from the MatchCandidates the resolver returns
resolver_entries(query_string, match_candidates, algorithm_used) ==
    [i \in 1..Len(match_candidates) |->
        [original_query |-> query_string,
         matched_candidate_original |-> match_candidates[i].entity_name,
         matched_candidate_processed |-> match_candidates[i].processed,
         score |-> match_candidates[i].score,
         algorithm_used |-> algorithm_used]]

\* find_best_matches_in_list: the returned list, the lines printed, and the
\* algorithm _get_resolver_algorithm selected ("" when it was not called);
\* libs is what the selected algorithm's library function returns for the
\* processed query against each processed candidate
find_best_matches_in_list(query_string, candidate_strings, algorithm_name, thr, lim, libs) ==
    IF sorted_matches(query_string, candidate_strings, algorithm_name) # <<>>
    THEN [entries |-> sorted_matches(query_string, candidate_strings, algorithm_name),
          warnings |-> <<>>,
          selected |-> ""]
    ELSE IF Len(apple_matches(query_string, candidate_strings, algorithm_name)) >= 3
    THEN [entries |-> apple_matches(query_string, candidate_strings, algorithm_name),
          warnings |-> resolver_algorithm_warnings(algorithm_name),
          selected |-> resolver_algorithm_name(algorithm_name)]
    ELSE [entries |->
              resolver_entries(query_string,
                               resolve(PrimaryAlgorithm(resolver_algorithm_name(algorithm_name),
                                                        libs),
                                       query_string, candidate_strings, thr, lim).result,
                               resolver_algorithm_name(algorithm_name)),
          warnings |-> resolver_algorithm_warnings(algorithm_name),
          selected |-> resolver_algorithm_name(algorithm_name)]

\* the algorithm names the facade is asked for: two registered names, the
\* name the code singles out, and a name that is not registered
FacadeAlgorithmNames == {"token_set_ratio", "levenshtein", "nonexistent_algorithm", "cosine"}
FacadeCandidateLists == SeqsUpTo(FacadeCandidates, MaxCandidates)
\* what the library returns for the processed query against each processed
\* candidate, as a percentage
FacadeChoices == {Normalized[c] : c \in FacadeCandidates} \ {""}
LibTables == {[c \in FacadeChoices |-> 50],
              [c \in FacadeChoices |-> IF c = "ac" THEN 90 ELSE 50]}

(***************************************************************************)
(* The state machine: each behaviour is one call of one operation on       *)
(* services built with the drawn configuration.                            *)
(***************************************************************************)
\* ConfigurableMatchDecisionStrategy.__init__ with its default thresholds
DefaultStrategy(phonetic_match_contributes) ==
    [token_set_threshold |-> Frac(90, 100),
     jaro_winkler_threshold |-> Frac(90, 100),
     weighted_ratio_threshold |-> Frac(90, 100),
     high_token_set_threshold |-> Frac(98, 100),
     high_jaro_winkler_threshold |-> Frac(98, 100),
     phonetic_match_contributes |-> phonetic_match_contributes]

\* the values a caller configures a threshold with: the two defaults
ThresholdValues == {Frac(90, 100), Frac(98, 100)}
\* ConfigurableMatchDecisionStrategy(scorer, ...) with caller-chosen thresholds
ThresholdStrategies ==
    [token_set_threshold : ThresholdValues,
     jaro_winkler_threshold : ThresholdValues,
     weighted_ratio_threshold : ThresholdValues,
     high_token_set_threshold : ThresholdValues,
     high_jaro_winkler_threshold : ThresholdValues,
     phonetic_match_contributes : BOOLEAN]
\* the pairs the strategies with caller-chosen thresholds are applied to
ThresholdPairs ==
    {PyStr("Ab Co."), PyStr("Abc")} \X {PyStr("ab co"), PyStr("Abc"), PyStr(" ")}

\* the values an algorithm returns for the scored pair
AlgoScores == {Frac(50, 100), Frac(90, 100), Frac(98, 100)}
\* the algorithm names a scorer is configured with
AlgorithmSets == {{}, {"token_set_ratio"}, {"token_set_ratio", "jaro_winkler", "weighted_ratio"}}
AlgorithmConfigs == UNION {[names -> AlgoScores] : names \in AlgorithmSets}

\* the encode functions an encoder may have, over the processed strings
ProcessedStrings == {Processed[v].ret : v \in ScoreInputs} \ {""}
Codebooks == {[p \in ProcessedStrings |-> "A100"],
              [p \in ProcessedStrings |-> IF p = "abc" THEN "A120" ELSE "A100"]}
EncoderSets == {{}, {"soundex"}, {"soundex", "metaphone"}}
EncoderConfigs == UNION {[names -> Codebooks] : names \in EncoderSets}

\* a scorer built with algorithms of the registry: each entry is the value
\* the algorithm returns for the two processed strings, libs[a] being what
\* the library function wrapped by algorithm a returns for them
RegistryScorer(libs, encoders, s1_raw, s2_raw) ==
    [similarity_algorithms |->
        [a \in DOMAIN libs |->
            AlgorithmResult(a, Processed[s1_raw].ret, Processed[s2_raw].ret, libs[a])],
     phonetic_encoders |-> encoders]

\* the registry algorithms the scorer of InitRegistry is built with: those
\* the decision rules consult, and levenshtein
RegistryNames == {"levenshtein", "jaro_winkler", "token_set_ratio", "weighted_ratio"}
RegistryPercents == {0, 94, 100}
RegistryLibs ==
    {l \in [RegistryNames -> RegistryPercents] : l["levenshtein"] = 0}

NoScorer == [similarity_algorithms |-> <<>>, phonetic_encoders |-> <<>>]

(***************************************************************************)
(* InMemoryEntityRepository. A dict is a function whose domain is the set  *)
(* of its keys; `order` is the insertion order of _entities_by_id. An      *)
(* Optional[EntityProfile] is a sequence of at most one profile. `codes`   *)
(* is the encode function of the phonetic encoder over processed names.    *)
(***************************************************************************)
DomainEntityProfile(entity_id, primary_name, alternate_names) ==
    [entity_id |-> entity_id, primary_name |-> primary_name,
     alternate_names |-> alternate_names]

\* d[k] = v
DictPut(d, k, v) == [x \in DOMAIN d \cup {k} |-> IF x = k THEN v ELSE d[x]]
\* del d[k] for every k of keys
DictDel(d, keys) == [x \in DOMAIN d \ keys |-> d[x]]
\* d.get(k) == v
DictHas(d, k, v) == k \in DOMAIN d /\ d[k] = v

\* InMemoryEntityRepository.__init__
EmptyRepository(codes) ==
    [entities_by_id |-> <<>>, order |-> <<>>, primary_name_to_id |-> <<>>,
     alt_name_to_id |-> <<>>, phonetic_primary_index |-> <<>>, codes |-> codes]

\* _get_phonetic_code: "" stands for None
get_phonetic_code(r, processed_name) ==
    IF processed_name = "" THEN "" ELSE r.codes[processed_name]

\* the processed, non-empty alternate names of a profile
ProcessedAlternates(entity) ==
    {Normalized[entity.alternate_names[i]] : i \in 1..Len(entity.alternate_names)} \ {""}

\* removal of an id from the bucket of a code; an emptied bucket is deleted
BucketRemove(index, code, entity_id) ==
    IF code # "" /\ code \in DOMAIN index /\ entity_id \in index[code]
    THEN IF index[code] = {entity_id}
         THEN DictDel(index, {code})
         ELSE DictPut(index, code, index[code] \ {entity_id})
    ELSE index

\* addition of an id to the bucket of a code (a defaultdict of sets)
BucketAdd(index, code, entity_id) ==
    IF code = "" THEN index
    ELSE DictPut(index, code,
                 (IF code \in DOMAIN index THEN index[code] ELSE {}) \cup {entity_id})

\* a variant of the removal that leaves the primary-name index alone
remove_from_indices_KeepPrimary(r, entity) ==
    [r EXCEPT
        !.phonetic_primary_index =
            BucketRemove(@, get_phonetic_code(r, Normalized[entity.primary_name]),
                         entity.entity_id),
        !.alt_name_to_id =
            DictDel(@, {k \in ProcessedAlternates(entity) : DictHas(@, k, entity.entity_id)})]

\* _remove_from_indices(entity)
remove_from_indices(r, entity) ==
    [r EXCEPT
        !.primary_name_to_id =
            IF /\ Normalized[entity.primary_name] # ""
               /\ DictHas(@, Normalized[entity.primary_name], entity.entity_id)
            THEN DictDel(@, {Normalized[entity.primary_name]})
            ELSE @,
        !.phonetic_primary_index =
            BucketRemove(@, get_phonetic_code(r, Normalized[entity.primary_name]),
                         entity.entity_id),
        !.alt_name_to_id =
            DictDel(@, {k \in ProcessedAlternates(entity) : DictHas(@, k, entity.entity_id)})]

\* the part of save after the old index entries are removed
store_and_index(r, entity) ==
    [r EXCEPT
        !.entities_by_id = DictPut(@, entity.entity_id, entity),
        !.order = IF entity.entity_id \in DOMAIN r.entities_by_id
                  THEN @ ELSE Append(@, entity.entity_id),
        !.primary_name_to_id =
            IF Normalized[entity.primary_name] # ""
            THEN DictPut(@, Normalized[entity.primary_name], entity.entity_id)
            ELSE @,
        !.phonetic_primary_index =
            BucketAdd(@, get_phonetic_code(r, Normalized[entity.primary_name]),
                      entity.entity_id),
        !.alt_name_to_id =
            [k \in DOMAIN @ \cup ProcessedAlternates(entity) |->
                IF k \in ProcessedAlternates(entity) THEN entity.entity_id ELSE @[k]]]

\* a variant of save that stores and indexes a profile only under a new id
save_KeepFirst(r, entity) ==
    IF entity.entity_id \in DOMAIN r.entities_by_id
    THEN r
    ELSE store_and_index(r, entity)

\* InMemoryEntityRepository.save(entity)
save(r, entity) ==
    IF entity.entity_id \in DOMAIN r.entities_by_id
    THEN store_and_index(remove_from_indices(r, r.entities_by_id[entity.entity_id]), entity)
    ELSE store_and_index(r, entity)

\* InMemoryEntityRepository.find_by_id(entity_id)
find_by_id(r, entity_id) ==
    IF entity_id \in DOMAIN r.entities_by_id THEN <<r.entities_by_id[entity_id]>> ELSE <<>>

\* InMemoryEntityRepository.find_by_primary_name(name)
find_by_primary_name(r, name) ==
    IF Normalized[name] = "" THEN <<>>
    ELSE IF Normalized[name] \in DOMAIN r.primary_name_to_id
    THEN find_by_id(r, r.primary_name_to_id[Normalized[name]])
    ELSE IF Normalized[name] \in DOMAIN r.alt_name_to_id
    THEN find_by_id(r, r.alt_name_to_id[Normalized[name]])
    ELSE <<>>

\* InMemoryEntityRepository.get_all_entity_names()
get_all_entity_names(r) ==
    [i \in 1..Len(r.order) |-> r.entities_by_id[r.order[i]].primary_name]

\* the first entity, in dict order, whose processed primary name starts with "apple "
FirstApple(r) ==
    LET hits == {i \in 1..Len(r.order) :
                    StartsWith(Normalized[r.entities_by_id[r.order[i]].primary_name],
                               "apple ")}
    IN  IF hits = {} THEN {} ELSE {r.order[MinOf(hits)]}

\* find_candidates_by_name: the exact and the special-case candidate ids
direct_candidate_ids(r, pq) ==
    (IF pq \in DOMAIN r.primary_name_to_id THEN {r.primary_name_to_id[pq]} ELSE {})
    \cup (IF pq \in DOMAIN r.alt_name_to_id THEN {r.alt_name_to_id[pq]} ELSE {})
    \cup (IF pq = "apple" THEN FirstApple(r) ELSE {})

\* find_candidates_by_name: candidate_ids, for a non-empty processed query
candidate_ids(r, pq) ==
    IF direct_candidate_ids(r, pq) # {} THEN direct_candidate_ids(r, pq)
    ELSE IF get_phonetic_code(r, pq) # "" /\ get_phonetic_code(r, pq) \in DOMAIN r.phonetic_primary_index
    THEN r.phonetic_primary_index[get_phonetic_code(r, pq)]
    ELSE {}

\* InMemoryEntityRepository.find_candidates_by_name(name, limit): the ids of
\* the profiles returned; iteration_order is the order in which the set
\* candidate_ids is iterated
find_candidates_by_name(r, name, lim, iteration_order) ==
    IF Normalized[name] = "" THEN <<>>
    ELSE LET listed == Pick(iteration_order,
                            {i \in 1..Len(iteration_order) :
                                iteration_order[i] \in candidate_ids(r, Normalized[name])})
         IN  SubSeq(listed, 1, Min2(lim, Len(listed)))

(***************************************************************************)
(* EntityResolutionFacade.register_entity and find_by_name                 *)
(***************************************************************************)
\* the ids _check_special_test_cases looks up: "E001" .. "E009"
SpecialIds == <<"E001", "E002", "E003", "E004", "E005", "E006", "E007", "E008", "E009">>

HasAlternate(entity, raw) ==
    \E i \in 1..Len(entity.alternate_names) : entity.alternate_names[i] = raw

\* _check_special_test_cases(name_str)
check_special_test_cases(r, name_str) ==
    IF name_str = "Apple Inc." /\ "E001" \in DOMAIN r.entities_by_id
    THEN find_by_id(r, "E001")
    ELSE IF name_str = "Apple Computer"
    THEN LET hits == {i \in 1..Len(SpecialIds) :
                         /\ SpecialIds[i] \in DOMAIN r.entities_by_id
                         /\ HasAlternate(r.entities_by_id[SpecialIds[i]], "Apple Computer")}
         IN  IF hits = {} THEN <<>> ELSE find_by_id(r, SpecialIds[MinOf(hits)])
    ELSE <<>>

\* the alternate names of the listed profiles, profile by profile
RECURSIVE AlternateNamesOf(_, _)
AlternateNamesOf(r, ids) ==
    IF ids = <<>> THEN <<>>
    ELSE r.entities_by_id[Head(ids)].alternate_names \o AlternateNamesOf(r, Tail(ids))

\* _get_candidate_names(query_name)
get_candidate_names(r, name, iteration_order) ==
    LET repo_candidates == find_candidates_by_name(r, name, 20, iteration_order)
    IN  IF repo_candidates = <<>> THEN get_all_entity_names(r)
        ELSE [i \in 1..Len(repo_candidates) |->
                 r.entities_by_id[repo_candidates[i]].primary_name]
             \o AlternateNamesOf(r, repo_candidates)

\* _resolve_best_match(query_name, candidate_names, resolution_threshold);
\* libs is what the library's WRatio returns for the processed query against
\* each processed candidate
resolve_best_match(r, name, candidate_names, resolution_threshold, libs) ==
    LET best_matches == resolve(PrimaryAlgorithm("weighted_ratio", libs), name,
                                candidate_names, resolution_threshold, 1).result
    IN  IF best_matches = <<>> THEN <<>>
        ELSE find_by_primary_name(r, best_matches[1].entity_name)

\* EntityResolutionFacade.find_by_name(name_str, resolution_threshold)
find_by_name(r, name_str, resolution_threshold, libs, iteration_order) ==
    IF check_special_test_cases(r, name_str) # <<>>
    THEN check_special_test_cases(r, name_str)
    ELSE IF find_by_primary_name(r, name_str) # <<>>
    THEN find_by_primary_name(r, name_str)
    ELSE IF get_candidate_names(r, name_str, iteration_order) = <<>> THEN <<>>
    ELSE resolve_best_match(r, name_str, get_candidate_names(r, name_str, iteration_order),
                            resolution_threshold, libs)

\* the entities, names and encoders the repository is exercised with
EntityIds == {"E001", "E002"}
PrimaryNames == {"Apple Inc.", "Ab", "ab", "Cd"}
AlternateLists == {<<>>, <<"Ab">>, <<"Apple Computer">>}
QueryStrings == {"Apple Inc.", "Apple Computer", "Ab", "Cd", "."}
RepoChoices == {Normalized[n] : n \in RepoNames} \ {""}
RepoCodebooks ==
    {[p \in RepoChoices |-> CASE p = "ab" -> "A100"
                              [] p = "cd" -> "C300"
                              [] p = "apple inc" -> "A145"
                              [] OTHER -> "A142"],
     [p \in RepoChoices |-> IF p = "cd" THEN "" ELSE "A100"]}
\* what the library's WRatio returns for the processed query against each
\* processed candidate, as a percentage
RepoLibTables == {[c \in RepoChoices |-> 50], [c \in RepoChoices |-> 90]}
\* the orders in which a set of entity ids may be iterated
IterationOrders == {<<"E001", "E002">>, <<"E002", "E001">>}
\* what is remembered of the save calls made under an id: the profile of the
\* latest one, and whether an earlier one passed a different profile
Saved(h, entity) ==
    [profile |-> entity,
     updated |-> /\ entity.entity_id \in DOMAIN h
                 /\ (h[entity.entity_id].updated \/ h[entity.entity_id].profile # entity)]
NoLookup == [op |-> "none", arg |-> "", result |-> <<>>]

(***************************************************************************)
(* Concurrent calls of the core operations on shared service instances.    *)
(* A call runs in two steps: it normalizes its arguments into local        *)
(* variables, then computes its result from them and from the attributes   *)
(* of the instance. No method assigns an attribute after __init__.         *)
(***************************************************************************)
Threads == {1, 2}

CoreCall(name, s1_raw, s2_raw, query_name, candidate_names) ==
    [op |-> name, s1 |-> s1_raw, s2 |-> s2_raw,
     query |-> query_name, candidates |-> candidate_names]

\* the calls a thread may make
CoreCalls ==
    {CoreCall("preprocess", v, PyNone, "", <<>>) : v \in {PyStr("Ab Co."), PyInt(7), PyNone}}
    \cup {CoreCall(o, PyStr("Ab Co."), PyStr("ab co"), "", <<>>) :
             o \in {"calculate_scores", "evaluate_match"}}
    \cup {CoreCall(o, PyStr("Abc"), PyStr(" "), "", <<>>) :
             o \in {"calculate_scores", "evaluate_match"}}
    \cup {CoreCall("resolve", PyNone, PyNone, "IBM", <<"ibm", "ibn">>),
          CoreCall("resolve", PyNone, PyNone, "ibn", <<"IBM", "ibx">>),
          CoreCall("resolve", PyNone, PyNone, ".", <<"IBM">>)}

\* the attributes of the shared scorer, strategy and resolver
SharedInstances ==
    {[scorer |-> [similarity_algorithms |-> a, phonetic_encoders |-> e],
      strategy |-> DefaultStrategy(b),
      primary_algorithm |-> LevenshteinPrimary,
      threshold |-> t,
      limit |-> 1] :
        a \in [{"token_set_ratio", "jaro_winkler", "weighted_ratio"} -> {Frac(98, 100)}]
              \cup [{"token_set_ratio"} -> {Frac(50, 100)}],
        e \in [{"soundex"} -> Codebooks],
        b \in BOOLEAN,
        t \in {Zero, Frac(8, 10)}}

\* the local variables a call holds once its arguments are normalized
EnterLocals(sh, c) ==
    CASE c.op = "preprocess" -> preprocess_call(c.s1)
      [] c.op = "calculate_scores" -> <<Processed[c.s1], Processed[c.s2]>>
      [] c.op = "evaluate_match" -> calculate_scores(sh.scorer, c.s1, c.s2)
      [] c.op = "resolve" -> Normalized[c.query]

\* a variant in which a call reads the locals that the latest call of the
\* same operation by thread 1 left behind, as an attribute of the instance
\* would hold them
LocalsOf_Shared(t, fr) ==
    IF fr[1].call.op = fr[t].call.op /\ fr[1].pc # "called"
    THEN fr[1].locals
    ELSE fr[t].locals

\* the locals a thread reads are those of its own call
LocalsOf(t, fr) == fr[t].locals

\* the value a call returns, from its locals and the shared attributes
ReturnValue(sh, c, locals) ==
    CASE c.op = "preprocess" -> locals
      [] c.op = "calculate_scores" -> build_scores(sh.scorer, locals[1], locals[2])
      [] c.op = "evaluate_match" -> decide(sh.strategy, locals)
      [] c.op = "resolve" ->
             IF locals = ""
             THEN [result |-> <<>>, calls |-> 0]
             ELSE resolve(sh.primary_algorithm, c.query, c.candidates, sh.threshold, sh.limit)

\* the value the same call returns when it runs alone on the instances
Alone(sh, c) ==
    CASE c.op = "preprocess" -> preprocess_call(c.s1)
      [] c.op = "calculate_scores" -> calculate_scores(sh.scorer, c.s1, c.s2)
      [] c.op = "evaluate_match" -> evaluate_match(sh.strategy, sh.scorer, c.s1, c.s2)
      [] c.op = "resolve" ->
             resolve(sh.primary_algorithm, c.query, c.candidates, sh.threshold, sh.limit)

NormIdle == input = PyNone /\ ret = "" /\ stages = <<>>
ResolveIdle ==
    /\ threshold = Zero
    /\ limit = 0
    /\ query = ""
    /\ candidates = <<>>
    /\ result = <<>>
    /\ algoCalls = 0
ScoreIdle ==
    /\ scorer = NoScorer
    /\ strategy = DefaultStrategy(FALSE)
    /\ pair = <<PyNone, PyNone>>
    /\ match = <<>>

CoreIdle == shared = <<>> /\ frames = <<>>
RepoIdle == repo = <<>> /\ history = <<>> /\ found = <<>>
NoFacadeResult == [entries |-> <<>>, warnings |-> <<>>, selected |-> ""]
FacadeIdle ==
    /\ facadeCall = [query_string |-> "", candidate_strings |-> <<>>,
                     algorithm_name |-> "token_set_ratio", threshold |-> Frac(7, 10),
                     limit |-> 0, libs |-> <<>>]
    /\ facadeResult = NoFacadeResult

SimIdle ==
    /\ simCall = [algorithm |-> "levenshtein", s1 |-> "", s2 |-> "", lib |-> 0]
    /\ simResult = Zero

InitNorm ==
    /\ pc = "idle"
    /\ op = "preprocess"
    /\ raised = FALSE
    /\ input \in InputValues
    /\ ret = ""
    /\ stages = <<>>
    /\ ResolveIdle
    /\ ScoreIdle
    /\ SimIdle
    /\ FacadeIdle
    /\ CoreIdle
    /\ RepoIdle

InitSuffix ==
    /\ pc = "idle"
    /\ op = "preprocess"
    /\ raised = FALSE
    /\ input \in {PyStr(s) : s \in SuffixedNames}
    /\ ret = ""
    /\ stages = <<>>
    /\ ResolveIdle
    /\ ScoreIdle
    /\ SimIdle
    /\ FacadeIdle
    /\ CoreIdle
    /\ RepoIdle

InitResolve ==
    /\ pc = "idle"
    /\ op = "resolve"
    /\ raised = FALSE
    /\ NormIdle
    /\ threshold \in Thresholds
    /\ limit \in 0..MaxLimit
    /\ query \in QueryNames
    /\ candidates \in CandidateLists
    /\ result = <<>>
    /\ algoCalls = 0
    /\ ScoreIdle
    /\ SimIdle
    /\ FacadeIdle
    /\ CoreIdle
    /\ RepoIdle

InitAlgo ==
    /\ pc = "idle"
    /\ op = "calculate_similarity"
    /\ raised = FALSE
    /\ NormIdle
    /\ ResolveIdle
    /\ ScoreIdle
    /\ simCall \in {[algorithm |-> a, s1 |-> x, s2 |-> y, lib |-> v] :
                       a \in DefaultAlgorithmNames, x \in AlgoStrings, y \in AlgoStrings,
                       v \in LibPercents \cup (0..MaxAlgoLen)}
    /\ simCall.s1 \in StringsFor(simCall.algorithm)
    /\ simCall.s2 \in StringsFor(simCall.algorithm)
    /\ simCall.lib \in LibValues(simCall.algorithm, simCall.s1, simCall.s2)
    /\ simResult = Zero
    /\ FacadeIdle
    /\ CoreIdle
    /\ RepoIdle

InitFacade ==
    /\ pc = "idle"
    /\ op = "find_best_matches_in_list"
    /\ raised = FALSE
    /\ NormIdle
    /\ ResolveIdle
    /\ ScoreIdle
    /\ SimIdle
    /\ facadeCall \in [query_string : FacadeQueries,
                       candidate_strings : FacadeCandidateLists,
                       algorithm_name : FacadeAlgorithmNames,
                       threshold : {Zero, Frac(7, 10)},
                       limit : 0..MaxLimit,
                       libs : LibTables]
    /\ facadeResult = NoFacadeResult
    /\ CoreIdle
    /\ RepoIdle

InitScore ==
    /\ pc = "idle"
    /\ op \in {"calculate_scores", "evaluate_match"}
    /\ raised = FALSE
    /\ NormIdle
    /\ ResolveIdle
    /\ scorer \in {[similarity_algorithms |-> a, phonetic_encoders |-> e] :
                      a \in AlgorithmConfigs, e \in EncoderConfigs}
    /\ strategy \in IF op = "evaluate_match"
                    THEN {DefaultStrategy(b) : b \in BOOLEAN}
                    ELSE {DefaultStrategy(FALSE)}
    /\ pair \in ScoreInputs \X ScoreInputs
    /\ match = <<>>
    /\ SimIdle
    /\ FacadeIdle
    /\ CoreIdle
    /\ RepoIdle

InitConcurrent ==
    /\ pc = "idle"
    /\ op = "concurrent"
    /\ raised = FALSE
    /\ NormIdle
    /\ ResolveIdle
    /\ ScoreIdle
    /\ SimIdle
    /\ FacadeIdle
    /\ shared \in SharedInstances
    /\ frames \in [Threads -> {[pc |-> "called", call |-> c, locals |-> <<>>, result |-> <<>>] :
                                  c \in CoreCalls}]
    /\ RepoIdle

InitRepository ==
    /\ pc = "idle"
    /\ op = "repository"
    /\ raised = FALSE
    /\ NormIdle
    /\ ResolveIdle
    /\ ScoreIdle
    /\ SimIdle
    /\ FacadeIdle
    /\ CoreIdle
    /\ repo \in {EmptyRepository(codes) : codes \in RepoCodebooks}
    /\ history = <<>>
    /\ found = NoLookup

InitThresholds ==
    /\ pc = "idle"
    /\ op = "evaluate_match"
    /\ raised = FALSE
    /\ NormIdle
    /\ ResolveIdle
    /\ strategy \in ThresholdStrategies
    /\ pair \in ThresholdPairs
    /\ scorer \in {[similarity_algorithms |-> a, phonetic_encoders |-> e] :
                      a \in [{"token_set_ratio", "jaro_winkler", "weighted_ratio"} -> AlgoScores],
                      e \in [{"soundex"} -> Codebooks]}
    /\ match = <<>>
    /\ SimIdle
    /\ FacadeIdle
    /\ CoreIdle
    /\ RepoIdle

InitRegistry ==
    /\ pc = "idle"
    /\ op = "evaluate_match"
    /\ raised = FALSE
    /\ NormIdle
    /\ ResolveIdle
    /\ strategy \in {DefaultStrategy(b) : b \in BOOLEAN}
    /\ pair \in ScoreInputs \X ScoreInputs
    /\ scorer \in {RegistryScorer(l, e, pair[1], pair[2]) :
                      l \in RegistryLibs, e \in EncoderConfigs}
    /\ match = <<>>
    /\ SimIdle
    /\ FacadeIdle
    /\ CoreIdle
    /\ RepoIdle

\* one call of StandardStringPreprocessor.preprocess(input)
Preprocess ==
    /\ pc = "idle"
    /\ op = "preprocess"
    /\ LET c == preprocess_call(input)
       IN  /\ ret' = c.ret
           /\ stages' = c.stages
           /\ raised' = c.raised
    /\ pc' = "done"
    /\ UNCHANGED <<op, input, resolveVars, scoreVars, simVars, facadeVars, coreVars, repoVars>>

\* one call of resolver.resolve(query, candidates)
Resolve ==
    /\ pc = "idle"
    /\ op = "resolve"
    /\ LET r == resolve(LevenshteinPrimary, query, candidates, threshold, limit)
       IN  /\ result' = r.result
           /\ algoCalls' = r.calls
    /\ pc' = "done"
    /\ UNCHANGED <<op, raised, normVars, threshold, limit, query, candidates, scoreVars, simVars, facadeVars, coreVars, repoVars>>

\* one call of scorer.calculate_scores(s1_raw, s2_raw)
CalculateScores ==
    /\ pc = "idle"
    /\ op = "calculate_scores"
    /\ LET r == calculate_scores(scorer, pair[1], pair[2])
       IN  /\ match' = r
           /\ raised' = r.raised
    /\ pc' = "done"
    /\ UNCHANGED <<op, normVars, resolveVars, scorer, strategy, pair, simVars, facadeVars, coreVars, repoVars>>

\* one call of strategy.evaluate_match(s1_raw, s2_raw)
EvaluateMatch ==
    /\ pc = "idle"
    /\ op = "evaluate_match"
    /\ LET r == evaluate_match(strategy, scorer, pair[1], pair[2])
       IN  /\ match' = r
           /\ raised' = r.raised
    /\ pc' = "done"
    /\ UNCHANGED <<op, normVars, resolveVars, scorer, strategy, pair, simVars, facadeVars, coreVars, repoVars>>

\* one direct call of algorithms[name].calculate_similarity(s1, s2)
CalculateSimilarity ==
    /\ pc = "idle"
    /\ op = "calculate_similarity"
    /\ simResult' = AlgorithmResult(simCall.algorithm, simCall.s1, simCall.s2, simCall.lib)
    /\ pc' = "done"
    /\ UNCHANGED <<op, raised, normVars, resolveVars, scoreVars, simCall, facadeVars, coreVars, repoVars>>

\* one call of facade.find_best_matches_in_list
FindBestMatches ==
    /\ pc = "idle"
    /\ op = "find_best_matches_in_list"
    /\ facadeResult' = find_best_matches_in_list(facadeCall.query_string,
                                                 facadeCall.candidate_strings,
                                                 facadeCall.algorithm_name,
                                                 facadeCall.threshold,
                                                 facadeCall.limit,
                                                 facadeCall.libs)
    /\ pc' = "done"
    /\ UNCHANGED <<op, raised, normVars, resolveVars, scoreVars, simVars, facadeCall, coreVars,
                   repoVars>>

\* thread t normalizes the arguments of its call into its local variables
Enter(t) ==
    /\ op = "concurrent"
    /\ frames[t].pc = "called"
    /\ frames' = [frames EXCEPT ![t].pc = "normalized",
                                ![t].locals = EnterLocals(shared, frames[t].call)]
    /\ UNCHANGED <<pc, op, raised, normVars, resolveVars, scoreVars, simVars, facadeVars,
                   shared, repoVars>>

\* thread t computes the result of its call and returns
Return(t) ==
    /\ op = "concurrent"
    /\ frames[t].pc = "normalized"
    /\ frames' = [frames EXCEPT ![t].pc = "returned",
                                ![t].result = ReturnValue(shared, frames[t].call,
                                                          LocalsOf(t, frames))]
    /\ UNCHANGED <<pc, op, raised, normVars, resolveVars, scoreVars, simVars, facadeVars,
                   shared, repoVars>>

\* facade.register_entity(entity_id, primary_name_str, alternate_names_str):
\* a new profile is built and saved
RegisterEntity ==
    /\ op = "repository"
    /\ \E entity_id \in EntityIds, primary_name \in PrimaryNames,
          alternate_names \in AlternateLists :
          /\ repo' = save(repo, DomainEntityProfile(entity_id, primary_name, alternate_names))
          /\ history' = DictPut(history, entity_id,
                                Saved(history,
                                      DomainEntityProfile(entity_id, primary_name,
                                                          alternate_names)))
    /\ found' = NoLookup
    /\ UNCHANGED <<pc, op, raised, normVars, resolveVars, scoreVars, simVars, facadeVars,
                   coreVars>>

\* repository.find_by_id(entity_id)
FindById ==
    /\ op = "repository"
    /\ found = NoLookup
    /\ \E entity_id \in EntityIds :
          found' = [op |-> "find_by_id", arg |-> entity_id,
                    result |-> find_by_id(repo, entity_id)]
    /\ UNCHANGED <<pc, op, raised, normVars, resolveVars, scoreVars, simVars, facadeVars,
                   coreVars, repo, history>>

\* repository.find_by_primary_name(name)
FindByPrimaryName ==
    /\ op = "repository"
    /\ found = NoLookup
    /\ \E name \in QueryStrings :
          found' = [op |-> "find_by_primary_name", arg |-> name,
                    result |-> find_by_primary_name(repo, name)]
    /\ UNCHANGED <<pc, op, raised, normVars, resolveVars, scoreVars, simVars, facadeVars,
                   coreVars, repo, history>>

\* repository.get_all_entity_names()
GetAllEntityNames ==
    /\ op = "repository"
    /\ found = NoLookup
    /\ found' = [op |-> "get_all_entity_names", arg |-> "",
                 result |-> get_all_entity_names(repo)]
    /\ UNCHANGED <<pc, op, raised, normVars, resolveVars, scoreVars, simVars, facadeVars,
                   coreVars, repo, history>>

\* facade.find_by_name(name_str) with the default resolution threshold
FindByName ==
    /\ op = "repository"
    /\ found = NoLookup
    /\ \E name_str \in QueryStrings, libs \in RepoLibTables,
          iteration_order \in IterationOrders :
          found' = [op |-> "find_by_name", arg |-> name_str,
                    result |-> find_by_name(repo, name_str, Frac(85, 100), libs,
                                            iteration_order)]
    /\ UNCHANGED <<pc, op, raised, normVars, resolveVars, scoreVars, simVars, facadeVars,
                   coreVars, repo, history>>

NextNorm == Preprocess
NextResolve == Resolve
NextCore == Preprocess \/ CalculateScores \/ EvaluateMatch
NextAlgo == CalculateSimilarity
NextRegistry == EvaluateMatch
NextFacade == FindBestMatches
NextThresholds == EvaluateMatch
NextRepository ==
    \/ RegisterEntity
    \/ FindById
    \/ FindByPrimaryName
    \/ GetAllEntityNames
    \/ FindByName
NextConcurrent == \E t \in Threads : Enter(t) \/ Return(t)

\* preprocess on strings, None and ints
SpecNorm == InitNorm /\ [][NextNorm]_vars
\* preprocess on names followed by a legal-form suffix
SpecSuffix == InitSuffix /\ [][NextNorm]_vars
\* resolve
SpecResolve == InitResolve /\ [][NextResolve]_vars
\* direct calls of the registry's similarity algorithms
SpecAlgo == InitAlgo /\ [][NextAlgo]_vars
\* evaluate_match with a scorer built from the registry's algorithms
SpecRegistry == InitRegistry /\ [][NextRegistry]_vars
\* registrations and lookups on one repository
SpecRepository == InitRepository /\ [][NextRepository]_vars
\* two threads calling the core operations on shared instances
SpecConcurrent == InitConcurrent /\ [][NextConcurrent]_vars
\* evaluate_match under strategies with caller-chosen thresholds
SpecThresholds == InitThresholds /\ [][NextThresholds]_vars
\* find_best_matches_in_list
SpecFacade == InitFacade /\ [][NextFacade]_vars
\* preprocess, calculate_scores and evaluate_match
SpecCore == (InitNorm \/ InitScore) /\ [][NextCore]_vars

PreprocessDone == pc = "done" /\ op = "preprocess"

(***************************************************************************)
(* Properties of EntityResolverService.resolve, checked under SpecResolve  *)
(***************************************************************************)
ResolveDone == pc = "done" /\ op = "resolve"

\* the candidates with a non-empty normalized form whose raw string equals
\* the query's raw string or whose normalized string equals the query's
QualifyingExact ==
    Pick(candidates,
         {i \in 1..Len(candidates) :
             /\ Normalized[candidates[i]] # ""
             /\ (candidates[i] = query \/ Normalized[candidates[i]] = Normalized[query])})

ResultNames == [k \in 1..Len(result) |-> result[k].entity_name]

\* the score the ranking algorithm gives a candidate against the query
ScoreOf(c) == calculate_similarity(Normalized[query], Normalized[c])

\* C1: whenever some candidate with a non-empty normalized form equals the
\* query in raw or in normalized form, the result is exactly the sub-list of
\* all such candidates, in candidate order, each with score 1.0, and the
\* similarity algorithm is not invoked.
C1_ExactMatchPath ==
    (ResolveDone /\ QualifyingExact # <<>>) =>
        /\ ResultNames = QualifyingExact
        /\ \A k \in 1..Len(result) : FracEq(result[k].score, One)
        /\ algoCalls = 0

\* C2: resolve returns at most `limit` candidates, for every query,
\* candidate list, threshold and limit >= 0.
C2_AtMostLimit == ResolveDone => Len(result) <= limit

\* C3: on the ranking path (no exact match, the candidates are scored by the
\* algorithm) every candidate with a non-empty normalized form is ranked: one
\* whose score is >= threshold is absent from the result only when `limit`
\* candidates with scores at least as high are returned, so two raw
\* candidates with the same normalized form are both eligible.
C3_EveryCandidateRanked ==
    (ResolveDone /\ QualifyingExact = <<>> /\ algoCalls > 0) =>
        \A i \in 1..Len(candidates) :
            LET c == candidates[i] IN
            ( /\ Normalized[c] # ""
              /\ FracGE(ScoreOf(c), threshold)
              /\ \A k \in 1..Len(result) : result[k].entity_name # c )
            => /\ Len(result) = limit
               /\ \A k \in 1..Len(result) : FracGE(result[k].score, ScoreOf(c))

\* C4: every candidate returned by resolve, on the exact-match path or on the
\* ranking path, has score >= threshold.
C4_ScoreAtLeastThreshold ==
    ResolveDone => \A k \in 1..Len(result) : FracGE(result[k].score, threshold)

\* C4 is exercised on the ranking path: a candidate scoring exactly the
\* threshold is returned while a lower-scoring one has been filtered out
C4_Witness ==
    /\ ResolveDone
    /\ algoCalls > 0
    /\ FracGT(threshold, Zero)
    /\ Len(result) < limit
    /\ \E k \in 1..Len(result) : FracEq(result[k].score, threshold)
    /\ \E i \in 1..Len(candidates) :
          /\ Normalized[candidates[i]] # ""
          /\ ~FracGE(ScoreOf(candidates[i]), threshold)
          /\ \A k \in 1..Len(result) : result[k].entity_name # candidates[i]

\* C5: the returned list is sorted by score in non-increasing order,
\* candidates with equal scores appear in their original candidate-list
\* order, and a second call with the same arguments returns the same list.
C5_SortedStableDeterministic ==
    ResolveDone =>
        /\ \A k, l \in 1..Len(result) :
              k < l => FracGE(result[k].score, result[l].score)
        /\ \A k, l \in 1..Len(result) :
              (k < l /\ FracEq(result[k].score, result[l].score)) =>
                  \E i, j \in 1..Len(candidates) :
                      /\ i < j
                      /\ candidates[i] = result[k].entity_name
                      /\ candidates[j] = result[l].entity_name
        /\ result = resolve(LevenshteinPrimary, query, candidates, threshold, limit).result

\* C6: a query that normalizes to the empty string gets the empty list for
\* every candidate list, and no candidate whose normalized form is empty is
\* ever returned.
C6_EmptyNormalizedForms ==
    ResolveDone =>
        /\ (Normalized[query] = "" => result = <<>>)
        /\ \A k \in 1..Len(result) :
              /\ Normalized[result[k].entity_name] # ""
              /\ result[k].processed # ""

\* C6 is exercised by an empty-normalizing query among candidates that
\* include the query's own raw string and a name with a non-empty form
C6_Witness ==
    /\ ResolveDone
    /\ Normalized[query] = ""
    /\ \E i \in 1..Len(candidates) : candidates[i] = query
    /\ \E i \in 1..Len(candidates) : Normalized[candidates[i]] # ""
    /\ result = <<>>

(***************************************************************************)
(* Properties of StandardStringPreprocessor.preprocess                     *)
(***************************************************************************)




\* the base names n for which input is n followed by " " and v
BasesOf(v) ==
    LET s == input.s
        k == Len(s) - Len(v) - 1
    IN  IF k >= 0 /\ SubSeq(s, k + 1, Len(s)) = " " \o v /\ SubSeq(s, 1, k) \in BaseNames
        THEN {SubSeq(s, 1, k)}
        ELSE {}

\* the normalized name followed by the short token
WithShort(n, short) ==
    IF preprocess(n) = "" THEN short ELSE preprocess(n) \o " " \o short

\* C7: normalization is idempotent: preprocess(preprocess(x)) = preprocess(x)
\* for every input x.
C7_Idempotent == PreprocessDone => preprocess(ret) = ret

\* C8: a name ending in "public limited company" normalizes to the same
\* string as the name ending in "plc", and a name ending in "limited
\* liability company" to the same string as the name ending in "llc": the
\* normalized name followed by the short token.
C8_MultiWordPhrases ==
    \A f \in PhraseFamilies : \A v \in f.variants : \A n \in BasesOf(v) :
        PreprocessDone => ret = WithShort(n, f.short)

\* C9: all single-word spellings of one suffix family normalize identically:
\* a name N followed by any spelling of the family normalizes to normalized N
\* followed by the family's short token.
C9_SuffixFamilies ==
    \A f \in SuffixFamilies : \A v \in f.variants : \A n \in BasesOf(v) :
        PreprocessDone => ret = WithShort(n, f.short)

\* C9 is exercised by the long spelling and by the dotted spelling of a family
C9_Witness ==
    /\ PreprocessDone
    /\ input \in {PyStr("Ab Holdings"), PyStr("Ab Hldg.")}
    /\ ret = "ab hldg"

\* C10: preprocess is total: None, the empty string and whitespace-only
\* strings return "" without running any pipeline stage, a numeric input is
\* processed as its textual representation, and no input makes preprocess,
\* calculate_scores or evaluate_match raise.
C10_Total ==
    /\ pc = "done" => ~raised
    /\ PreprocessDone =>
          /\ (input.t = "none" \/ (input.t = "str" /\ StrStrip(input.s) = ""))
                => (ret = "" /\ stages = <<>>)
          /\ input.t = "int"
                => (ret = preprocess(IntToStr(input.n)) /\ stages = ChainOrder)
    /\ (pc = "done" /\ op = "calculate_scores") =>
          /\ match.processed_s1 = Processed[pair[1]].ret
          /\ match.processed_s2 = Processed[pair[2]].ret
    /\ (pc = "done" /\ op = "evaluate_match") =>
          /\ match.score_details.processed_s1 = Processed[pair[1]].ret
          /\ match.score_details.processed_s2 = Processed[pair[2]].ret
          /\ (match.score_details.processed_s1 = "") # (match.score_details.processed_s2 = "")
                => ~match.is_match

\* C10 is exercised by evaluate_match on None and a number: it preprocesses
\* both, scores them with the configured algorithms and decides without raising
C10_Witness ==
    /\ pc = "done"
    /\ op = "evaluate_match"
    /\ pair = <<PyNone, PyInt(7)>>
    /\ "token_set_ratio" \in DOMAIN scorer.similarity_algorithms
    /\ "soundex" \in DOMAIN scorer.phonetic_encoders
    /\ match.score_details.processed_s1 = ""
    /\ match.score_details.processed_s2 = "7"
    /\ ~match.is_match

(***************************************************************************)
(* Properties of ConfigurableMatchDecisionStrategy.evaluate_match, checked *)
(* under SpecCore                                                          *)
(***************************************************************************)
EvalDone == pc = "done" /\ op = "evaluate_match"

\* the numeric score the returned bundle gives for an algorithm name
NumScore(name) == get_score(match.score_details.scores, name).f
\* the phonetic code the returned bundle gives for a key
CodeOf(key) == get_score(match.score_details.scores, key).s

\* the condition of the k-th decision rule on the returned bundle
RuleFires(k) ==
    CASE k = 1 -> /\ FracGE(NumScore("token_set_ratio"), strategy.token_set_threshold)
                  /\ FracGE(NumScore("jaro_winkler"), strategy.jaro_winkler_threshold)
      [] k = 2 -> FracGE(NumScore("weighted_ratio"), strategy.weighted_ratio_threshold)
      [] k = 3 -> FracGE(NumScore("token_set_ratio"), strategy.high_token_set_threshold)
      [] k = 4 -> FracGE(NumScore("jaro_winkler"), strategy.high_jaro_winkler_threshold)
      [] k = 5 -> /\ strategy.phonetic_match_contributes
                  /\ CodeOf("soundex_s1") = CodeOf("soundex_s2")
                  /\ CodeOf("soundex_s1") # ""

FiringRules == {k \in 1..5 : RuleFires(k)}

\* the text every reason of the k-th rule starts with
RuleStems ==
    << "Combined high token_set_ratio and jaro_winkler similarity",
       "High weighted_ratio similarity",
       "Very high token_set_ratio similarity",
       "Very high jaro_winkler similarity",
       "Phonetic match (Soundex)" >>

\* the informational reasons the returned bundle calls for
SoundexInfo ==
    IF CodeOf("soundex_s1") # "" /\ CodeOf("soundex_s1") = CodeOf("soundex_s2")
    THEN <<"Informational: Phonetic Soundex match (" \o CodeOf("soundex_s1") \o ")">>
    ELSE <<>>
MetaphoneInfo ==
    IF CodeOf("metaphone_s1") # "" /\ CodeOf("metaphone_s1") = CodeOf("metaphone_s2")
    THEN <<"Informational: Phonetic Metaphone match (" \o CodeOf("metaphone_s1") \o ")">>
    ELSE <<>>

\* C11: is_match is True exactly when at least one configured rule's
\* condition holds on the score bundle; every rule is evaluated and each
\* firing rule appends exactly one reason, so the rule reasons are those of
\* the firing rules in rule order (combined, weighted_ratio, high
\* token_set_ratio, high jaro_winkler, then Soundex if enabled), and any
\* reason after them is informational.
C11_AnyRuleFires ==
    EvalDone =>
        LET reasons == match.match_reasons
            stems == Pick(RuleStems, FiringRules)
        IN  /\ match.is_match = (FiringRules # {})
            /\ Len(reasons) >= Len(stems)
            /\ \A j \in 1..Len(stems) : StartsWith(reasons[j], stems[j])
            /\ \A j \in (Len(stems) + 1)..Len(reasons) :
                  StartsWith(reasons[j], "Informational:")

\* C11 is exercised when the combined rule, the weighted_ratio rule and the
\* Soundex rule fire while the two "very high" rules do not
C11_Witness ==
    /\ EvalDone
    /\ FiringRules = {1, 2, 5}
    /\ Len(match.match_reasons) = 3
    /\ match.is_match

\* C12: with phonetic_match_contributes disabled, equal non-empty Soundex
\* codes and equal non-empty Metaphone codes each append an informational
\* reason after all rule reasons, Soundex before Metaphone, and is_match is
\* True only when a threshold rule fires.
C12_InformationalReasons ==
    (EvalDone /\ ~strategy.phonetic_match_contributes) =>
        LET reasons == match.match_reasons
            n == Cardinality(FiringRules)
        IN  /\ Len(reasons) >= n
            /\ SubSeq(reasons, n + 1, Len(reasons)) = SoundexInfo \o MetaphoneInfo
            /\ match.is_match = (\E k \in 1..4 : RuleFires(k))

\* C12 is exercised when both pairs of codes coincide and no threshold rule
\* fires: two informational reasons and no match
C12_Witness ==
    /\ EvalDone
    /\ ~strategy.phonetic_match_contributes
    /\ FiringRules = {}
    /\ SoundexInfo # <<>>
    /\ MetaphoneInfo # <<>>
    /\ Len(match.match_reasons) = 2
    /\ ~match.is_match

\* C13 as stated: with the default strategy, whenever no decision rule
\* fires, is_match is False and the reason list is empty.
C13_NoRuleNoReasons ==
    (EvalDone /\ strategy = DefaultStrategy(FALSE) /\ FiringRules = {}) =>
        /\ ~match.is_match
        /\ match.match_reasons = <<>>

\* C13 amended: with the default strategy, whenever no decision rule fires,
\* is_match is False and the reason list holds exactly the informational
\* phonetic reasons: it is empty only when neither the Soundex codes nor the
\* Metaphone codes are equal and non-empty.
C13_NoRuleOnlyInformational ==
    (EvalDone /\ strategy = DefaultStrategy(FALSE) /\ FiringRules = {}) =>
        /\ ~match.is_match
        /\ match.match_reasons = SoundexInfo \o MetaphoneInfo
        /\ (match.match_reasons = <<>>) = (SoundexInfo = <<>> /\ MetaphoneInfo = <<>>)

\* C13 is exercised by a pair that no rule accepts but whose Soundex codes
\* coincide: no match, one informational reason
C13_Witness ==
    /\ EvalDone
    /\ strategy = DefaultStrategy(FALSE)
    /\ FiringRules = {}
    /\ Len(match.match_reasons) = 1
    /\ StartsWith(match.match_reasons[1], "Informational: Phonetic Soundex match")
    /\ ~match.is_match

\* C14: under the default thresholds, with a scorer built from the
\* registry's algorithms, any two inputs whose normalized forms are equal and
\* non-empty are judged a match with at least one reason.
C14_EqualNormalizedFormsMatch ==
    ( /\ EvalDone
      /\ "token_set_ratio" \in DOMAIN scorer.similarity_algorithms
      /\ match.score_details.processed_s1 = match.score_details.processed_s2
      /\ match.score_details.processed_s1 # "" )
    => /\ match.is_match
       /\ Len(match.match_reasons) >= 1

\* C14 is exercised by two spellings of one name for which jaro_winkler and
\* weighted_ratio report nothing: the match rests on token_set_ratio alone
C14_Witness ==
    /\ EvalDone
    /\ pair = <<PyStr("Ab Co."), PyStr("Ab Company")>>
    /\ match.score_details.processed_s1 = "ab co"
    /\ match.score_details.processed_s2 = "ab co"
    /\ FracEq(NumScore("jaro_winkler"), Zero)
    /\ FracEq(NumScore("weighted_ratio"), Zero)
    /\ match.is_match
    /\ match.match_reasons[1] = "Very high token_set_ratio similarity (TS: 1.00)"

(***************************************************************************)
(* Properties of ComprehensiveMatchScorer.calculate_scores, checked under  *)
(* SpecCore                                                                *)
(***************************************************************************)
CalcDone == pc = "done" /\ op = "calculate_scores"

\* C15: for every configured similarity algorithm, if both normalized
\* strings are empty the recorded score is 1.0 and if exactly one is empty it
\* is 0.0, and in both cases no algorithm is invoked; for every configured
\* encoder the code recorded for an empty normalized string is "" and the
\* encoder is not invoked on it.
C15_EmptyStringRule ==
    CalcDone =>
        /\ (match.processed_s1 = "" \/ match.processed_s2 = "") =>
              /\ match.invoked = {}
              /\ \A a \in DOMAIN scorer.similarity_algorithms :
                    match.scores[a] =
                        ScoreFloat(IF match.processed_s1 = "" /\ match.processed_s2 = ""
                                   THEN One ELSE Zero)
        /\ \A e \in DOMAIN scorer.phonetic_encoders :
              /\ <<e, "">> \notin match.encoded
              /\ match.processed_s1 = "" => match.scores[e \o "_s1"] = ScoreStr("")
              /\ match.processed_s2 = "" => match.scores[e \o "_s2"] = ScoreStr("")

\* C15 is exercised by None against a name, with three algorithms and two
\* encoders configured: zero scores, an empty code for the empty side, the
\* encoders called on the other side only
C15_Witness ==
    /\ CalcDone
    /\ pair = <<PyNone, PyStr("Abc")>>
    /\ Cardinality(DOMAIN scorer.similarity_algorithms) = 3
    /\ Cardinality(DOMAIN scorer.phonetic_encoders) = 2
    /\ match.scores["weighted_ratio"] = ScoreFloat(Zero)
    /\ match.scores["soundex_s1"] = ScoreStr("")
    /\ match.scores["soundex_s2"].s # ""
    /\ match.invoked = {}
    /\ match.encoded = {<<"soundex", "abc">>, <<"metaphone", "abc">>}

\* the keys under which the registry's encoders record their codes
DefaultEncoderNames == {"soundex", "metaphone"}
PhoneticKeys == {e \o side : e \in DefaultEncoderNames, side \in {"_s1", "_s2"}}

\* C16: the score bundle has exactly one numeric entry per configured
\* similarity algorithm, exactly the entries <encoder>_s1 and <encoder>_s2
\* (codes) per configured encoder and no other key; a get_score lookup of an
\* absent key returns 0.0 for a similarity identifier and "" for a
\* phonetic-code identifier.
C16_BundleKeys ==
    CalcDone =>
        LET algos == DOMAIN scorer.similarity_algorithms
            encs == DOMAIN scorer.phonetic_encoders
            keys == DOMAIN match.scores
        IN  /\ keys = algos \cup {e \o side : e \in encs, side \in {"_s1", "_s2"}}
            /\ Cardinality(keys) = Cardinality(algos) + 2 * Cardinality(encs)
            /\ \A a \in algos : match.scores[a].t = "float"
            /\ \A e \in encs : /\ match.scores[e \o "_s1"].t = "str"
                               /\ match.scores[e \o "_s2"].t = "str"
            /\ \A a \in DefaultAlgorithmNames \ keys :
                  get_score(match.scores, a) = ScoreFloat(Zero)
            /\ \A k \in PhoneticKeys \ keys :
                  get_score(match.scores, k) = ScoreStr("")

\* C16 is exercised by a scorer with one algorithm and one encoder on two
\* names: three keys, the other identifiers of the registry are absent
C16_Witness ==
    /\ CalcDone
    /\ pair = <<PyStr("Ab Co."), PyStr("Abc")>>
    /\ DOMAIN match.scores = {"token_set_ratio", "soundex_s1", "soundex_s2"}
    /\ get_score(match.scores, "metaphone_s1") = ScoreStr("")
    /\ get_score(match.scores, "levenshtein") = ScoreFloat(Zero)

(***************************************************************************)
(* Properties of the similarity algorithms called directly, checked under  *)
(* SpecAlgo                                                                *)
(***************************************************************************)
SimDone == pc = "done" /\ op = "calculate_similarity"

\* C17: for each of the seven similarity algorithms,
\* calculate_similarity("", "") = 1.0, calculate_similarity(s, "") =
\* calculate_similarity("", s) = 0.0 for every non-empty s, and every result
\* lies in [0.0, 1.0].
C17_EmptyStringsAndRange ==
    SimDone =>
        /\ (simCall.s1 = "" /\ simCall.s2 = "") => FracEq(simResult, One)
        /\ ((simCall.s1 = "") # (simCall.s2 = "")) => FracEq(simResult, Zero)
        /\ FracGE(simResult, Zero)
        /\ FracGE(One, simResult)

\* C17 is exercised by weighted_ratio on a non-empty string and "": the
\* result is 0.0 whatever the library would report
C17_Witness ==
    /\ SimDone
    /\ simCall.algorithm = "weighted_ratio"
    /\ simCall.s1 = "ab"
    /\ simCall.s2 = ""
    /\ simCall.lib = 100
    /\ FracEq(simResult, Zero)

\* C18: every similarity algorithm is symmetric:
\* calculate_similarity(s1, s2) = calculate_similarity(s2, s1), the library
\* function returning the same value for the two orders of its arguments.
C18_Symmetric ==
    SimDone =>
        FracEq(simResult,
               AlgorithmResult(simCall.algorithm, simCall.s2, simCall.s1, simCall.lib))

\* C18 is exercised by the suffix-aware boost of token_set_ratio: two names
\* that differ in their suffix only score 0.5 * 0.3 + 1.0 * 0.7
C18_Witness ==
    /\ SimDone
    /\ simCall.algorithm = "token_set_ratio"
    /\ simCall.s1 = "ab inc"
    /\ simCall.s2 = "ab corp"
    /\ simCall.lib = 50
    /\ FracEq(simResult, Frac(85, 100))

(***************************************************************************)
(* find_best_matches_in_list                                               *)
(***************************************************************************)
FacadeDone == pc = "done" /\ op = "find_best_matches_in_list"

\* C19: for every algorithm name that is not in the registry,
\* find_best_matches_in_list completes without raising, ranks with
\* token_set_ratio, and emits a caller-visible warning.
C19_UnknownAlgorithmFallsBack ==
    (FacadeDone /\ facadeCall.algorithm_name \notin DefaultAlgorithmNames) =>
        /\ raised = FALSE
        /\ facadeResult.selected # "" => facadeResult.selected = "token_set_ratio"
        /\ facadeResult.warnings # <<>>

\* the identifier the call is expected to report: the requested name when it
\* is registered, otherwise token_set_ratio
ExpectedAlgorithm ==
    IF facadeCall.algorithm_name \in DefaultAlgorithmNames
    THEN facadeCall.algorithm_name
    ELSE "token_set_ratio"

\* C20: every entry returned by find_best_matches_in_list reports in
\* algorithm_used the identifier of the similarity algorithm selected for the
\* call, whatever the query and candidates are.
C20_AlgorithmUsedReported ==
    FacadeDone =>
        \A i \in 1..Len(facadeResult.entries) :
            facadeResult.entries[i].algorithm_used = ExpectedAlgorithm

\* C30: find_best_matches_in_list agrees with the resolver on degenerate
\* input: when the query normalizes to the empty string it returns the empty
\* list, and it never returns a candidate whose normalized form is empty.
C30_DegenerateInput ==
    FacadeDone =>
        /\ Normalized[facadeCall.query_string] = "" => facadeResult.entries = <<>>
        /\ \A i \in 1..Len(facadeResult.entries) :
               Normalized[facadeResult.entries[i].matched_candidate_original] # ""

(***************************************************************************)
(* The characters of a normalized form                                     *)
(***************************************************************************)
\* C25: every output of preprocess consists only of lowercase letters,
\* digits and single interior spaces: no punctuation or other symbol
\* character, no upper-case letter, no leading or trailing whitespace and no
\* run of two whitespace characters.
C25_OutputAlphabet ==
    (PreprocessDone /\ raised = FALSE) =>
        /\ \A i \in 1..Len(ret) : CharAt(ret, i) \in LowerSet \cup DigitSet \cup {" "}
        /\ ret # "" => CharAt(ret, 1) # " " /\ CharAt(ret, Len(ret)) # " "
        /\ \A i \in 1..(Len(ret) - 1) : ~(CharAt(ret, i) = " " /\ CharAt(ret, i + 1) = " ")

(***************************************************************************)
(* TokenSetRatioAlgorithm, checked under SpecAlgo                          *)
(***************************************************************************)
TokenSetDone == SimDone /\ simCall.algorithm = "token_set_ratio"
\* the base token-set score of the call
BaseScore == Frac(simCall.lib, 100)
\* the token sets of the two strings and what is left without suffix tokens
TokenSet1 == Tokens(StrLower(simCall.s1))
TokenSet2 == Tokens(StrLower(simCall.s2))
NameSet1 == TokenSet1 \ company_suffixes
NameSet2 == TokenSet2 \ company_suffixes
\* |intersection| / max(|set1|, |set2|) of the suffix-stripped sets
NameSim ==
    Frac(Cardinality(NameSet1 \cap NameSet2),
         Max2(Cardinality(NameSet1), Cardinality(NameSet2)))
\* the four conditions under which the score may differ from the base
BoostApplies ==
    /\ FracGT(Frac(95, 100), BaseScore)
    /\ (TokenSet1 \cup TokenSet2) \cap company_suffixes # {}
    /\ NameSet1 # {}
    /\ NameSet2 # {}
    /\ FracGT(NameSim, Frac(8, 10))
\* max(base, min(1, 0.3*base + 0.7*name_sim)), in hundredths of hundredths
BoostedScore ==
    FracMax(BaseScore,
            FracMin(One, Frac(3 * BaseScore.n * NameSim.d + 7 * NameSim.n * BaseScore.d,
                              10 * BaseScore.d * NameSim.d)))
\* both strings non-empty and different ignoring case: the library is consulted
LibraryConsulted ==
    /\ simCall.s1 # ""
    /\ simCall.s2 # ""
    /\ StrLower(simCall.s1) # StrLower(simCall.s2)

\* C24 as stated: the returned score is never lower than the base token-set
\* score and never above 1.0, and it differs from the base only when the
\* base is below 0.95, a token set has a company-suffix token, both
\* suffix-stripped sets are non-empty and their similarity exceeds 0.8 (then
\* it is max(base, min(1, 0.3*base + 0.7*name_sim))); no division by zero.
C24_BoostOnly ==
    TokenSetDone =>
        /\ FracGE(simResult, BaseScore)
        /\ FracGE(One, simResult)
        /\ simResult.d # 0
        /\ ~FracEq(simResult, BaseScore) =>
               BoostApplies /\ FracEq(simResult, BoostedScore)

\* C24 restricted to the calls that consult the library: for two non-empty
\* strings that differ ignoring case the score is the base or the boosted
\* value exactly as stated; two empty strings or two strings equal ignoring
\* case give 1.0 and exactly one empty string gives 0.0 whatever the base is;
\* the score never exceeds 1.0 and no denominator is zero.
C24_BoostOnlyWhenConsulted ==
    TokenSetDone =>
        /\ FracGE(One, simResult)
        /\ simResult.d # 0
        /\ (NameSet1 # {} /\ NameSet2 # {}) => NameSim.d # 0
        /\ LibraryConsulted =>
               /\ FracGE(simResult, BaseScore)
               /\ IF BoostApplies THEN FracEq(simResult, BoostedScore)
                                  ELSE FracEq(simResult, BaseScore)
        /\ ~LibraryConsulted =>
               FracEq(simResult, IF (simCall.s1 = "") # (simCall.s2 = "") THEN Zero ELSE One)

\* C24 is exercised by "ab inc" against "ab corp" with base 0.5: the
\* suffix-stripped sets are both {"ab"}, so the score is 0.3*0.5 + 0.7 = 0.85
C24_Witness ==
    /\ TokenSetDone
    /\ simCall.s1 = "ab inc"
    /\ simCall.s2 = "ab corp"
    /\ simCall.lib = 50
    /\ BoostApplies
    /\ FracEq(simResult, Frac(85, 100))

(***************************************************************************)
(* The optional Soundex rule, checked under SpecCore                       *)
(***************************************************************************)
\* C28: with phonetic_match_contributes enabled, equal non-empty Soundex
\* codes set is_match True and append the reason
\* "Phonetic match (Soundex): <code>" as the last rule reason, and no
\* informational reason is ever appended (equal Metaphone codes produce no
\* reason and do not affect the verdict).
C28_SoundexRule ==
    (EvalDone /\ strategy.phonetic_match_contributes) =>
        LET reasons == match.match_reasons
        IN  /\ (CodeOf("soundex_s1") # "" /\ CodeOf("soundex_s1") = CodeOf("soundex_s2")) =>
                   /\ match.is_match
                   /\ reasons # <<>>
                   /\ reasons[Len(reasons)] =
                          "Phonetic match (Soundex): " \o CodeOf("soundex_s1")
            /\ \A j \in 1..Len(reasons) :
                   /\ ~StartsWith(reasons[j], "Informational:")
                   /\ ~Contains(reasons[j], "Metaphone")
            /\ match.is_match = (FiringRules # {})
            /\ Len(reasons) = Cardinality(FiringRules)

\* C28 is exercised when the flag is set, the Soundex and the Metaphone codes
\* of the pair are equal and non-empty, and no score rule fires: the Soundex
\* reason is the only reason
C28_Witness ==
    /\ EvalDone
    /\ strategy.phonetic_match_contributes
    /\ CodeOf("soundex_s1") # ""
    /\ CodeOf("soundex_s1") = CodeOf("soundex_s2")
    /\ CodeOf("metaphone_s1") # ""
    /\ CodeOf("metaphone_s1") = CodeOf("metaphone_s2")
    /\ FiringRules = {5}
    /\ match.is_match
    /\ match.match_reasons = <<"Phonetic match (Soundex): " \o CodeOf("soundex_s1")>>

(***************************************************************************)
(* Caller-chosen thresholds, checked under SpecThresholds                  *)
(***************************************************************************)
\* every threshold of `lenient` is <= the corresponding one of `strict`, and
\* the phonetic flag is the same
AtMostAsStrict(lenient, strict) ==
    /\ FracGE(strict.token_set_threshold, lenient.token_set_threshold)
    /\ FracGE(strict.jaro_winkler_threshold, lenient.jaro_winkler_threshold)
    /\ FracGE(strict.weighted_ratio_threshold, lenient.weighted_ratio_threshold)
    /\ FracGE(strict.high_token_set_threshold, lenient.high_token_set_threshold)
    /\ FracGE(strict.high_jaro_winkler_threshold, lenient.high_jaro_winkler_threshold)
    /\ strict.phonetic_match_contributes = lenient.phonetic_match_contributes

\* the verdict another strategy over the same scorer gives for the same pair
VerdictOf(st) == evaluate_match(st, scorer, pair[1], pair[2]).is_match

\* C27: for two strategies over the same scorer and the same phonetic flag,
\* if every threshold of the lenient strategy is <= the corresponding
\* threshold of the strict one, then for every pair of strings a match
\* verdict of the strict strategy implies a match verdict of the lenient one.
C27_ThresholdMonotone ==
    (EvalDone /\ match.is_match) =>
        \A lenient \in ThresholdStrategies :
            AtMostAsStrict(lenient, strategy) => VerdictOf(lenient)

\* C27 is exercised when the strategy called reports a match, a strategy with
\* lower thresholds exists, and a strategy with higher thresholds rejects the
\* same pair: the verdict depends on the thresholds
C27_Witness ==
    /\ EvalDone
    /\ match.is_match
    /\ \E lenient \in ThresholdStrategies :
           lenient # strategy /\ AtMostAsStrict(lenient, strategy) /\ VerdictOf(lenient)
    /\ \E stricter \in ThresholdStrategies :
           AtMostAsStrict(strategy, stricter) /\ ~VerdictOf(stricter)

(***************************************************************************)
(* Concurrent calls, checked under SpecConcurrent                          *)
(***************************************************************************)
\* every call that returned has the result of the same call running alone
IsolatedResults ==
    \A t \in Threads :
        frames[t].pc = "returned" => frames[t].result = Alone(shared, frames[t].call)

\* C23: preprocess, calculate_scores, evaluate_match and resolve write no
\* state that outlives the call (the configured algorithm and encoder sets,
\* thresholds, rule list and limit are unchanged), so any interleaving of
\* concurrent calls on shared service instances yields, for each call, the
\* same result as running that call alone.
C23_StatelessCore == []IsolatedResults /\ [][shared' = shared]_vars

\* C23 is exercised when thread 2 has run a whole evaluate_match call, with
\* a match verdict, while thread 1 is in the middle of an evaluate_match call
\* on another pair
C23_Witness ==
    /\ frames # <<>>
    /\ frames[1].pc = "normalized"
    /\ frames[2].pc = "returned"
    /\ frames[1].call.op = "evaluate_match"
    /\ frames[2].call.op = "evaluate_match"
    /\ frames[1].call # frames[2].call
    /\ frames[2].result.is_match

(***************************************************************************)
(* InMemoryEntityRepository and find_by_name, checked under SpecRepository *)
(***************************************************************************)
\* the ids saved so far
SavedIds == DOMAIN history

\* the lists that hold exactly one primary name per saved id
OnePrimaryNamePerId ==
    {names \in SeqsUpTo(PrimaryNames, Cardinality(EntityIds)) :
        \E f \in [1..Len(names) -> SavedIds] :
            /\ \A i, j \in 1..Len(names) : f[i] = f[j] => i = j
            /\ \A id \in SavedIds : \E i \in 1..Len(names) : f[i] = id
            /\ \A i \in 1..Len(names) : names[i] = history[f[i]].profile.primary_name}

\* C22: after any sequence of save calls, find_by_id(id) returns the profile
\* most recently saved under id, and None for an id that was never saved;
\* get_all_entity_names returns exactly one primary name per stored id.
C22_FindByIdLatest ==
    /\ found.op = "find_by_id" =>
           found.result = IF found.arg \in SavedIds
                          THEN <<history[found.arg].profile>>
                          ELSE <<>>
    /\ found.op = "get_all_entity_names" => found.result \in OnePrimaryNamePerId

\* C22 is exercised when find_by_id is called for an id that was saved more
\* than once with different profiles, while another id is stored too
C22_Witness ==
    /\ found.op = "find_by_id"
    /\ found.arg = "E001"
    /\ SavedIds = EntityIds
    /\ history["E001"].updated
    /\ found.result = <<history["E001"].profile>>

\* the stored profile of an id
Stored(entity_id) == repo.entities_by_id[entity_id]

\* C26: index soundness under updates: after any sequence of save calls,
\* every entry of the primary-name index maps a key to an id whose stored
\* profile's primary name normalizes to that key, every alternate-name entry
\* maps to an id whose stored profile has an alternate name normalizing to
\* that key, and every id in a phonetic bucket belongs to a stored profile
\* whose primary name encodes to that bucket's code; so no entry for a name
\* that the replaced profile had and the stored one has not survives.
C26_IndexSoundness ==
    op = "repository" =>
        /\ \A k \in DOMAIN repo.primary_name_to_id :
               /\ repo.primary_name_to_id[k] \in DOMAIN repo.entities_by_id
               /\ Normalized[Stored(repo.primary_name_to_id[k]).primary_name] = k
        /\ \A k \in DOMAIN repo.alt_name_to_id :
               /\ repo.alt_name_to_id[k] \in DOMAIN repo.entities_by_id
               /\ \E i \in 1..Len(Stored(repo.alt_name_to_id[k]).alternate_names) :
                      Normalized[Stored(repo.alt_name_to_id[k]).alternate_names[i]] = k
        /\ \A code \in DOMAIN repo.phonetic_primary_index :
               \A id \in repo.phonetic_primary_index[code] :
                   /\ id \in DOMAIN repo.entities_by_id
                   /\ Normalized[Stored(id).primary_name] # ""
                   /\ repo.codes[Normalized[Stored(id).primary_name]] = code

\* C26 is exercised when both ids were re-saved with different profiles and
\* the three indices all hold entries
C26_Witness ==
    /\ op = "repository"
    /\ SavedIds = EntityIds
    /\ \A id \in EntityIds : history[id].updated
    /\ DOMAIN repo.primary_name_to_id # {}
    /\ DOMAIN repo.alt_name_to_id # {}
    /\ DOMAIN repo.phonetic_primary_index # {}

\* a profile has a primary or alternate name that normalizes to key
HasNameKey(entity, key) ==
    \/ Normalized[entity.primary_name] = key
    \/ \E i \in 1..Len(entity.alternate_names) : Normalized[entity.alternate_names[i]] = key

\* C29: lookup completeness: after any sequence of save calls, for every
\* stored profile whose primary name normalizes to a non-empty key,
\* find_by_primary_name called with that primary name returns a profile that
\* has a primary or alternate name normalizing to that key, even when
\* several ids were saved with the same normalized primary name and one of
\* them was later re-saved under a different name.
C29_LookupCompleteness ==
    (/\ found.op = "find_by_primary_name"
     /\ Normalized[found.arg] # ""
     /\ \E id \in DOMAIN repo.entities_by_id : Stored(id).primary_name = found.arg) =>
        /\ found.result # <<>>
        /\ HasNameKey(found.result[1], Normalized[found.arg])

\* C21: find_by_name tries the exact match first: after any sequence of
\* register_entity calls, if some registered entity has a primary or
\* alternate name whose normalized form equals the normalized query,
\* find_by_name returns an entity that has such a name.
C21_ExactMatchFirst ==
    (/\ found.op = "find_by_name"
     /\ \E id \in DOMAIN repo.entities_by_id : HasNameKey(Stored(id), Normalized[found.arg])) =>
        /\ found.result # <<>>
        /\ HasNameKey(found.result[1], Normalized[found.arg])

====
